---- MODULE Spec2Model ----
(***************************************************************************)
(* Query routing and context composition of the agentic RAG framework:     *)
(* QueryRouter (tool selection and execution), the LangGraph agent nodes   *)
(* retrieve_context and generate_response, and the bot's tool registry.    *)
(*                                                                         *)
(* Python strings that the code inspects character by character (the user  *)
(* query, the keyword table) are sequences of one-character strings.  The  *)
(* text returned by the selection model is a sequence of segments (code    *)
(* fences, whitespace, prose, the serialisation of one JSON value).        *)
(* Python values of unknown shape carry a type tag t.                      *)
(***************************************************************************)
EXTENDS Integers, Sequences, FiniteSets, TLC

(***************************************************************************)
(* Bounds of the model.                                                    *)
(***************************************************************************)
MaxConfigTools == 2

MaxSelected == 2

(***************************************************************************)
(* Generic helpers for Python lists and insertion-ordered dicts.           *)
(***************************************************************************)
SeqsUpTo(S, n) == UNION {[1..k -> S] : k \in 0..n}

Range(s) == {s[i] : i \in 1..Len(s)}

Contains(hay, needle) ==
  \E i \in 1..(Len(hay) - Len(needle) + 1) :
     SubSeq(hay, i, i + Len(needle) - 1) = needle

RECURSIVE Dedupe(_)
Dedupe(s) ==
  IF s = <<>> THEN <<>>
  ELSE LET init == Dedupe(SubSeq(s, 1, Len(s) - 1))
           last == s[Len(s)]
       IN IF last \in Range(init) THEN init ELSE Append(init, last)

(***************************************************************************)
(* str.lower() on the ASCII letters.                                       *)
(***************************************************************************)
UpperCase ==
  <<"A","B","C","D","E","F","G","H","I","J","K","L","M",
    "N","O","P","Q","R","S","T","U","V","W","X","Y","Z">>

LowerCase ==
  <<"a","b","c","d","e","f","g","h","i","j","k","l","m",
    "n","o","p","q","r","s","t","u","v","w","x","y","z">>

LowerChar(c) ==
  IF \E i \in 1..Len(UpperCase) : UpperCase[i] = c
  THEN LowerCase[CHOOSE i \in 1..Len(UpperCase) : UpperCase[i] = c]
  ELSE c

Lower(s) == [i \in 1..Len(s) |-> LowerChar(s[i])]

(***************************************************************************)
(* QueryRouter.TOOL_KEYWORDS, in the order of the dict literal.            *)
(***************************************************************************)
ToolTypes ==
  <<"SQLQueryTool", "MongoDBQueryTool", "DocumentSearchTool", "WebSearchTool">>

TOOL_KEYWORDS ==
  [ SQLQueryTool |->
      << <<"d","a","t","a","b","a","s","e">>,
         <<"r","e","c","o","r","d">>,
         <<"d","a","t","a">>,
         <<"t","a","b","l","e">>,
         <<"s","q","l">>,
         <<"c","o","u","r","s","e">>,
         <<"s","e","m","e","s","t","e","r">>,
         <<"q","u","e","r","y">>,
         <<"s","e","l","e","c","t">>,
         <<"i","n","s","e","r","t">>,
         <<"u","p","d","a","t","e">>,
         <<"d","e","l","e","t","e">>,
         <<"j","o","i","n">> >>,
    MongoDBQueryTool |->
      << <<"d","a","t","a","b","a","s","e">>,
         <<"r","e","c","o","r","d">>,
         <<"d","a","t","a">>,
         <<"d","o","c","u","m","e","n","t">>,
         <<"c","o","l","l","e","c","t","i","o","n">>,
         <<"m","o","n","g","o">>,
         <<"n","o","s","q","l">>,
         <<"f","i","e","l","d">>,
         <<"q","u","e","r","y">> >>,
    DocumentSearchTool |->
      << <<"d","o","c","u","m","e","n","t">>,
         <<"f","i","l","e">>,
         <<"t","e","x","t">>,
         <<"c","o","n","t","e","n","t">>,
         <<"a","r","t","i","c","l","e">>,
         <<"m","a","c","h","i","n","e"," ","l","e","a","r","n","i","n","g">>,
         <<"p","a","p","e","r">>,
         <<"p","d","f">>,
         <<"s","e","a","r","c","h">>,
         <<"f","i","n","d">> >>,
    WebSearchTool |->
      << <<"w","e","b">>,
         <<"i","n","t","e","r","n","e","t">>,
         <<"o","n","l","i","n","e">>,
         <<"s","e","a","r","c","h">>,
         <<"w","e","b","s","i","t","e">>,
         <<"a","t","l","a","s"," ","u","n","i","v","e","r","s","i","t","y">>,
         <<"g","o","o","g","l","e">>,
         <<"b","r","o","w","s","e","r">>,
         <<"u","r","l">>,
         <<"l","i","n","k">> >> ]

(***************************************************************************)
(* Bot configuration (BotConfig.tools) and the tool registry.              *)
(***************************************************************************)
\* AgenticRAG.TOOL_CLASSES with every optional import available.
TOOL_CLASSES == Range(ToolTypes)

\* The tool types the modelled bot configurations list; CustomTool has no
\* class in TOOL_CLASSES.
ConfigToolTypes == {"SQLQueryTool", "WebSearchTool", "CustomTool"}

ToolConfig == [type : ConfigToolTypes, enabled : BOOLEAN]

BotConfigs == SeqsUpTo(ToolConfig, MaxConfigTools)

\* [tool.type for tool in self.bot_config.tools if tool.enabled]
EnabledTypes(cfg) ==
  LET IsEnabled(c) == c.enabled
      en == SelectSeq(cfg, IsEnabled)
  IN [i \in 1..Len(en) |-> en[i].type]

\* AgenticRAG._initialize_tools: a tool is registered when its config is
\* enabled, its type has a class and its constructor did not raise;
\* failing is the set of types whose constructor raises.
InitializeTools(cfg, failing) ==
  {t \in Range(EnabledTypes(cfg)) : t \in TOOL_CLASSES /\ t \notin failing}

(***************************************************************************)
(* Python values produced by json.loads on the selection model's output.   *)
(***************************************************************************)
Missing == [t |-> "missing", items |-> <<>>]

PyStr(s) == [t |-> "str", v |-> s]

\* A list entry that is itself a list: unhashable, so a dict lookup raises.
PyUnhashable == [t |-> "list", v |-> "[]"]

PyList(items) == [t |-> "list", items |-> items]

\* Iterating a dict yields its keys.
PyDict(keys) == [t |-> "dict", items |-> keys]

\* Iterating a str yields its characters.
PyString(chars) == [t |-> "str", items |-> [i \in 1..Len(chars) |-> PyStr(chars[i])]]

PyNull == [t |-> "null", items |-> <<>>]

MissingField == [t |-> "missing", v |-> ""]

NullField == [t |-> "null", v |-> ""]

DictField == [t |-> "dict", v |-> "{...}"]

Iterable(value) == value.t \in {"list", "dict", "str"}

\* Python truth value of a reasoning value.
Truthy(value) ==
  CASE value.t = "str" -> value.v /= ""
    [] value.t = "null" -> FALSE
    [] OTHER -> TRUE

JsonObject(st, r) == [t |-> "object", selected_tools |-> st, reasoning |-> r]

JsonArray == [t |-> "array", selected_tools |-> Missing, reasoning |-> MissingField]

JsonNumber == [t |-> "number", selected_tools |-> Missing, reasoning |-> MissingField]

NoJson == [t |-> "none", selected_tools |-> Missing, reasoning |-> MissingField]

(***************************************************************************)
(* The text of the selection model's answer: a sequence of segments.       *)
(***************************************************************************)
FenceJson == [s |-> "fence_json", v |-> NoJson]

Fence == [s |-> "fence", v |-> NoJson]

Space == [s |-> "ws", v |-> NoJson]

Prose == [s |-> "prose", v |-> NoJson]

JsonText(value) == [s |-> "json", v |-> value]

IsFence(seg) == seg.s \in {"fence_json", "fence"}

\* A serialised JSON object is the only segment that holds braces.
HasBrace(seg) == seg.s = "json" /\ seg.v.t = "object"

IsBlank(segs) == \A i \in 1..Len(segs) : segs[i].s = "ws"

\* str.strip()
Strip(segs) ==
  IF IsBlank(segs) THEN <<>>
  ELSE LET first == CHOOSE i \in 1..Len(segs) :
                      /\ segs[i].s /= "ws"
                      /\ \A j \in 1..(i - 1) : segs[j].s = "ws"
           last == CHOOSE i \in 1..Len(segs) :
                      /\ segs[i].s /= "ws"
                      /\ \A j \in (i + 1)..Len(segs) : segs[j].s = "ws"
       IN SubSeq(segs, first, last)

\* The positions of the segments of each kind.
FenceJsonAt(segs) == {i \in 1..Len(segs) : segs[i].s = "fence_json"}

FenceAt(segs) == {i \in 1..Len(segs) : IsFence(segs[i])}

BraceAt(segs) == {i \in 1..Len(segs) : HasBrace(segs[i])}

\* str.find and str.rfind over positions; 0 when there is none.
FirstIndex(at) == IF at = {} THEN 0 ELSE CHOOSE i \in at : \A j \in at : i <= j

LastIndex(at) == IF at = {} THEN 0 ELSE CHOOSE i \in at : \A j \in at : j <= i

\* text.split(sep, 1)[1] for a separator found at index i; splitting at the
\* plain fence inside a ```json fence leaves the word json in front.
AfterSplit(segs, i, sep) ==
  LET rest == SubSeq(segs, i + 1, Len(segs))
  IN IF sep = "fence" /\ segs[i].s = "fence_json" THEN <<Prose>> \o rest ELSE rest

\* text.split("```", 1)[0]
BeforeFence(segs) ==
  LET j == FirstIndex(FenceAt(segs))
  IN IF j = 0 THEN segs ELSE SubSeq(segs, 1, j - 1)

\* QueryRouter._extract_json_from_response
ExtractJsonFromResponse(response_text) ==
  LET i1 == FirstIndex(FenceJsonAt(response_text))
      rest1 == AfterSplit(response_text, i1, "fence_json")
      i2 == FirstIndex(FenceAt(response_text))
      rest2 == AfterSplit(response_text, i2, "fence")
      start == FirstIndex(BraceAt(response_text))
      end == LastIndex(BraceAt(response_text))
  IN IF i1 /= 0 /\ FirstIndex(FenceAt(rest1)) /= 0
     THEN [json_str |-> Strip(BeforeFence(rest1)), method |-> "json_code_block"]
     ELSE IF i2 /= 0 /\ FirstIndex(FenceAt(rest2)) /= 0
     THEN [json_str |-> Strip(BeforeFence(rest2)), method |-> "code_block"]
     ELSE IF start /= 0
     THEN [json_str |-> SubSeq(response_text, start, end), method |-> "json_brackets"]
     ELSE [json_str |-> response_text, method |-> "full_text"]

\* json.loads: exactly one JSON value, surrounded by optional whitespace.
JsonLoads(json_str) ==
  LET core == Strip(json_str)
  IN IF Len(core) = 1 /\ core[1].s = "json"
     THEN [exc |-> "None", value |-> core[1].v]
     ELSE [exc |-> "JSONDecodeError", value |-> NoJson]

(***************************************************************************)
(* QueryRouter: tool selection.                                            *)
(***************************************************************************)
\* QueryRouter._get_tool_descriptions: the keys of the returned dict.
GetToolDescriptions(cfg, registry) ==
  LET Offered(c) == c.enabled /\ c.type \in registry
      offered == SelectSeq(cfg, Offered)
  IN Dedupe([i \in 1..Len(offered) |-> offered[i].type])

\* QueryRouter._get_keyword_selected_tools
GetKeywordSelectedTools_IgnoresEnabled(cfg, q) ==
  LET query_lower == Lower(q)
      Hit(tool_type) ==
        \E k \in 1..Len(TOOL_KEYWORDS[tool_type]) :
           Contains(query_lower, TOOL_KEYWORDS[tool_type][k])
  IN SelectSeq(ToolTypes, Hit)

GetKeywordSelectedTools(cfg, q) ==
  LET query_lower == Lower(q)
      Hit(tool_type) ==
        /\ \E k \in 1..Len(TOOL_KEYWORDS[tool_type]) :
              Contains(query_lower, TOOL_KEYWORDS[tool_type][k])
        /\ \E i \in 1..Len(cfg) : cfg[i].enabled /\ cfg[i].type = tool_type
  IN SelectSeq(ToolTypes, Hit)

\* QueryRouter._get_fallback_tools
GetFallbackTools_AlwaysAllEnabled(keyword_tools, cfg) == EnabledTypes(cfg)

GetFallbackTools(keyword_tools, cfg) ==
  IF keyword_tools /= <<>> THEN keyword_tools ELSE EnabledTypes(cfg)

\* [tool_name for tool_name in selected_tools if tool_name in self.tools]
\* on an iterable whose entries are all hashable.
FilterExistingTools(value, registry) ==
  LET Exists(entry) == entry.t = "str" /\ entry.v \in registry
      kept == SelectSeq(value.items, Exists)
  IN [i \in 1..Len(kept) |-> kept[i].v]

\* "selected_tools" in result and result["selected_tools"] == []
IsExplicitEmpty_Never(result) == FALSE

IsExplicitEmpty(result) ==
  /\ result.selected_tools.t /= "missing"
  /\ result.selected_tools = PyList(<<>>)

Decision(selected, reasoning, raw) ==
  [selected_tools |-> selected, reasoning |-> reasoning, raw_llm_output |-> raw]

NoDecision == Decision(<<>>, MissingField, "unset")

Returned(decision) == [exc |-> "None", value |-> decision]

Raised(e) == [exc |-> e, value |-> NoDecision]

\* QueryRouter._parse_llm_response
ParseLlmResponse(response_text, keyword_tools, cfg, registry) ==
  LET extracted == ExtractJsonFromResponse(response_text)
      json_str == extracted.json_str
      loaded == JsonLoads(json_str)
      result == loaded.value
      selected_tools ==
        IF result.selected_tools.t = "missing" THEN PyList(<<>>) ELSE result.selected_tools
      reasoning ==
        IF result.reasoning.t = "missing"
        THEN PyStr("No reasoning provided")
        ELSE result.reasoning
  IN IF json_str = <<>> \/ IsBlank(json_str)
     THEN Returned(Decision(
            GetFallbackTools(keyword_tools, cfg),
            PyStr("Could not extract JSON from LLM response, using keyword-based or all enabled tools selection"),
            "Could not extract JSON"))
     ELSE IF loaded.exc = "JSONDecodeError"
     THEN Returned(Decision(
            GetFallbackTools(keyword_tools, cfg),
            PyStr("Error parsing LLM response as JSON"),
            "JSON decode error"))
     ELSE IF result.t /= "object"
     THEN Raised("AttributeError")
     ELSE IF ~Iterable(selected_tools)
     THEN Raised("TypeError")
     ELSE IF \E i \in 1..Len(selected_tools.items) : selected_tools.items[i] = PyUnhashable
     THEN Raised("TypeError")
     ELSE IF IsExplicitEmpty(result)
     THEN Returned(Decision(
            <<>>,
            IF Truthy(reasoning)
            THEN reasoning
            ELSE PyStr("The query can be answered without using any tools"),
            "parsed_json"))
     ELSE IF FilterExistingTools(selected_tools, registry) = <<>>
     THEN Returned(Decision(
            GetFallbackTools(keyword_tools, cfg),
            PyStr("No specific tools selected by LLM, using keyword-based or all enabled tools selection"),
            "parsed_json"))
     ELSE Returned(Decision(
            FilterExistingTools(selected_tools, registry), reasoning, "parsed_json"))

\* The try block of QueryRouter._select_tools_with_reasoning once
\* self.llm.invoke has returned or raised, and its except clause.
SelectAfterInvoke(llm, keyword_tools, cfg, registry) ==
  LET parsed == ParseLlmResponse(Strip(llm.content), keyword_tools, cfg, registry)
  IN IF llm.raises \/ parsed.exc /= "None"
     THEN Returned(Decision(
            GetFallbackTools(keyword_tools, cfg),
            PyStr("Error selecting tools with LLM"),
            "Exception"))
     ELSE parsed

(***************************************************************************)
(* Insertion-ordered dicts (tool_responses, tool_results): sequences of    *)
(* key/value pairs with distinct keys.                                     *)
(***************************************************************************)
DictKeys(d) == [i \in 1..Len(d) |-> d[i].key]

DictHas(d, k) == \E i \in 1..Len(d) : d[i].key = k

DictGet(d, k) == d[CHOOSE i \in 1..Len(d) : d[i].key = k].value

\* d[k] = v: an existing key keeps its position.
DictSet(d, k, v) ==
  IF DictHas(d, k)
  THEN [i \in 1..Len(d) |-> IF d[i].key = k THEN [key |-> k, value |-> v] ELSE d[i]]
  ELSE Append(d, [key |-> k, value |-> v])

(***************************************************************************)
(* Tool results: the dict a tool's execute returns.  payload is the value  *)
(* under "documents" (document search) or "results" (the other tools).     *)
(***************************************************************************)
MaxPayload == 2

\* A payload entry: a dict (with or without its text field, "_id", "url"),
\* a plain string as the mock tools of tests/test_self_rag.py return, or None.
DictItem(n, text, id, url) ==
  [t |-> "dict", n |-> n, has_text |-> text, has_id |-> id, has_url |-> url]

StrItem(n) ==
  [t |-> "str", n |-> n, has_text |-> FALSE, has_id |-> FALSE, has_url |-> FALSE]

NullItem(n) ==
  [t |-> "null", n |-> n, has_text |-> FALSE, has_id |-> FALSE, has_url |-> FALSE]

ListPayload(items) == [t |-> "list", items |-> items]

NullPayload == [t |-> "null", items |-> <<>>]

MissingPayload == [t |-> "missing", items |-> <<>>]

ToolResult(success, payload, q, columns, collection, err) ==
  [success |-> success, payload |-> payload, query |-> q,
   columns |-> columns, collection |-> collection, error |-> err]

\* {"success": False, "error": str(e)}
ErrorResult(message) ==
  ToolResult(FALSE, MissingPayload, "missing", "missing", "missing", message)

(***************************************************************************)
(* LangGraphAgent: retrieve_context.  An evidence item's content names its *)
(* text by kind and by the payload entries it renders.                     *)
(***************************************************************************)
Content(kind, ns) == [kind |-> kind, ns |-> ns]

Evidence(source, content, metadata) ==
  [source |-> source, content |-> content, metadata |-> metadata]

Mapped(items) == [exc |-> "None", items |-> items]

MappingRaised(e) == [exc |-> e, items |-> <<>>]

\* retrieve_context, "Process document search results"
DocumentContext(tool_results) ==
  IF ~DictHas(tool_results, "DocumentSearchTool") THEN Mapped(<<>>)
  ELSE LET doc_results == DictGet(tool_results, "DocumentSearchTool")
           docs == doc_results.payload.items
       IN IF ~doc_results.success THEN Mapped(<<>>)
          ELSE IF doc_results.payload.t = "null" THEN MappingRaised("TypeError")
          ELSE IF \E i \in 1..Len(docs) : docs[i].t /= "dict"
          THEN MappingRaised("AttributeError")
          ELSE Mapped([i \in 1..Len(docs) |->
                 Evidence(<<"Document">>,
                          IF docs[i].has_text
                          THEN Content("content", <<docs[i].n>>)
                          ELSE Content("", <<>>),
                          "metadata")])

\* retrieve_context, "Process MongoDB results"
MongoContext(tool_results) ==
  IF ~DictHas(tool_results, "MongoDBQueryTool") THEN Mapped(<<>>)
  ELSE LET mongo_results == DictGet(tool_results, "MongoDBQueryTool")
           results == mongo_results.payload.items
       IN IF ~mongo_results.success THEN Mapped(<<>>)
          ELSE IF mongo_results.payload.t = "null" THEN MappingRaised("TypeError")
          ELSE IF mongo_results.query = "unserializable"
          THEN MappingRaised("TypeError")
          ELSE IF \E i \in 1..Len(results) : results[i].t = "null"
          THEN MappingRaised("TypeError")
          ELSE Mapped([i \in 1..Len(results) |->
                 Evidence(IF mongo_results.collection = "missing"
                          THEN <<"MongoDB", "unknown">>
                          ELSE <<"MongoDB", mongo_results.collection>>,
                          IF results[i].t = "dict" /\ results[i].has_text
                          THEN Content("page_content", <<results[i].n>>)
                          ELSE IF results[i].t = "dict" /\ results[i].has_id
                          THEN Content("str(result)", <<results[i].n>>)
                          ELSE Content("", <<>>),
                          "absent")])

\* The items the SQL mapping appends when success is true and the result
\* rows are a non-empty list: the rendered table, then one item per row.
SqlRowsContext(sql_results) ==
  LET results == sql_results.payload.items
  IN <<Evidence(<<"SQL Database Results">>,
                Content(IF sql_results.columns = "list"
                        THEN "SQL Query Results with header"
                        ELSE "SQL Query Results",
                        [i \in 1..Len(results) |-> results[i].n]),
                "absent")>>
       \o [i \in 1..Len(results) |->
             Evidence(<<"SQL Database">>, Content("str(result)", <<results[i].n>>),
                      "absent")]

\* if "query" in sql_results: "Add the SQL query that was executed"
SqlQueryItem(sql_results) ==
  IF sql_results.query /= "missing"
  THEN <<Evidence(<<"SQL Query">>, Content("Executed SQL query", <<>>), "absent")>>
  ELSE <<>>

\* retrieve_context, "Process SQL results"
SqlContext_TableWithoutRows(tool_results) ==
  IF ~DictHas(tool_results, "SQLQueryTool") THEN Mapped(<<>>)
  ELSE LET sql_results == DictGet(tool_results, "SQLQueryTool")
           results == sql_results.payload.items
       IN IF ~sql_results.success
          THEN Mapped(<<Evidence(<<"SQL Database Error">>,
                                 Content("SQL query failed", <<>>), "absent")>>)
          ELSE IF sql_results.payload.t = "list"
          THEN IF /\ sql_results.columns = "null"
                  /\ \E i \in 1..Len(results) : results[i].t = "dict"
               THEN MappingRaised("TypeError")
               ELSE Mapped(SqlQueryItem(sql_results) \o SqlRowsContext(sql_results))
          ELSE Mapped(SqlQueryItem(sql_results))

SqlContext(tool_results) ==
  IF ~DictHas(tool_results, "SQLQueryTool") THEN Mapped(<<>>)
  ELSE LET sql_results == DictGet(tool_results, "SQLQueryTool")
           results == sql_results.payload.items
       IN IF ~sql_results.success
          THEN Mapped(<<Evidence(<<"SQL Database Error">>,
                                 Content("SQL query failed", <<>>), "absent")>>)
          ELSE IF sql_results.payload.t = "list" /\ Len(results) > 0
          THEN IF /\ sql_results.columns = "null"
                  /\ \E i \in 1..Len(results) : results[i].t = "dict"
               THEN MappingRaised("TypeError")
               ELSE Mapped(SqlQueryItem(sql_results) \o SqlRowsContext(sql_results))
          ELSE Mapped(SqlQueryItem(sql_results))

\* retrieve_context, "Process web search results"
WebContext_ReportsFailure(tool_results) ==
  IF ~DictHas(tool_results, "WebSearchTool") THEN Mapped(<<>>)
  ELSE LET web_results == DictGet(tool_results, "WebSearchTool")
           results == web_results.payload.items
       IN IF ~web_results.success
          THEN Mapped(<<Evidence(<<"Web", "unknown">>,
                                 Content("Web search failed", <<>>), "absent")>>)
          ELSE IF web_results.payload.t = "null" THEN MappingRaised("TypeError")
          ELSE IF \E i \in 1..Len(results) : results[i].t /= "dict"
          THEN MappingRaised("AttributeError")
          ELSE Mapped([i \in 1..Len(results) |->
                 Evidence(IF results[i].has_url
                          THEN <<"Web", "url">>
                          ELSE <<"Web", "unknown">>,
                          IF results[i].has_text
                          THEN Content("content", <<results[i].n>>)
                          ELSE Content("", <<>>),
                          "absent")])

WebContext(tool_results) ==
  IF ~DictHas(tool_results, "WebSearchTool") THEN Mapped(<<>>)
  ELSE LET web_results == DictGet(tool_results, "WebSearchTool")
           results == web_results.payload.items
       IN IF ~web_results.success THEN Mapped(<<>>)
          ELSE IF web_results.payload.t = "null" THEN MappingRaised("TypeError")
          ELSE IF \E i \in 1..Len(results) : results[i].t /= "dict"
          THEN MappingRaised("AttributeError")
          ELSE Mapped([i \in 1..Len(results) |->
                 Evidence(IF results[i].has_url
                          THEN <<"Web", "url">>
                          ELSE <<"Web", "unknown">>,
                          IF results[i].has_text
                          THEN Content("content", <<results[i].n>>)
                          ELSE Content("", <<>>),
                          "absent")])

\* retrieve_context with the web mapping first, as TOOL_CLASSES lists it.
RetrieveContextOf_WebFirst(old_context, tool_results) ==
  LET doc == DocumentContext(tool_results)
      mongo == MongoContext(tool_results)
      sql == SqlContext(tool_results)
      web == WebContext(tool_results)
  IN IF \E m \in {doc, mongo, sql, web} : m.exc /= "None"
     THEN old_context
     ELSE web.items \o doc.items \o mongo.items \o sql.items

\* retrieve_context: the new value of state["context"]; one try block
\* spans the four mappings, and its handler returns the state unchanged.
RetrieveContextOf(old_context, tool_results) ==
  LET doc == DocumentContext(tool_results)
      mongo == MongoContext(tool_results)
      sql == SqlContext(tool_results)
      web == WebContext(tool_results)
  IN IF \E m \in {doc, mongo, sql, web} : m.exc /= "None"
     THEN old_context
     ELSE doc.items \o mongo.items \o sql.items \o web.items

(***************************************************************************)
(* Inputs: user queries and outcomes of the selection model call.          *)
(***************************************************************************)
\* "What is the budget for Computer Science in 2023?"
BudgetQuery ==
  <<"W","h","a","t"," ","i","s"," ","t","h","e"," ",
    "b","u","d","g","e","t"," ","f","o","r"," ","C",
    "o","m","p","u","t","e","r"," ","S","c","i","e",
    "n","c","e"," ","i","n"," ","2","0","2","3","?">>

Queries ==
  { <<"h","i">>,
    <<"S","Q","L"," ","d","a","t","a">>,
    <<"S","e","a","r","c","h"," ","t","h","e"," ","W","e","b">>,
    <<"B","u","d","g","e","t","?">>,
    BudgetQuery }

SelectedEntries ==
  {PyStr("SQLQueryTool"), PyStr("WebSearchTool"), PyStr("NoSuchTool"), PyUnhashable}

SelectedToolsValues ==
  {PyList(items) : items \in SeqsUpTo(SelectedEntries, MaxSelected)}
    \cup {PyDict(<<PyStr("WebSearchTool")>>), PyDict(<<>>),
          PyString(<<"W","e","b">>), PyNull, Missing}

ReasoningValues == {PyStr("because"), PyStr(""), NullField, DictField, MissingField}

\* Every selected_tools value with a plain reasoning, and every reasoning
\* value with an empty, a usable and an unusable selected_tools value.
JsonValues ==
  {JsonObject(st, PyStr("because")) : st \in SelectedToolsValues}
    \cup {JsonObject(st, r) :
            st \in {PyList(<<>>), PyList(<<PyStr("WebSearchTool")>>),
                    PyList(<<PyStr("NoSuchTool")>>)},
            r \in ReasoningValues}
    \cup {JsonArray, JsonNumber}

SampleJson ==
  {JsonObject(PyList(<<>>), PyStr("because")),
   JsonObject(PyList(<<PyStr("WebSearchTool")>>), PyStr("because"))}

LlmTexts ==
  {<<JsonText(v)>> : v \in JsonValues}
    \cup {<<FenceJson, Space, JsonText(v), Space, Fence>> : v \in SampleJson}
    \cup {<<Prose, Fence, JsonText(v), Fence, Prose>> : v \in SampleJson}
    \cup {<<Prose, JsonText(v), Prose>> : v \in SampleJson}
    \cup {<<Space, JsonText(v), Space>> : v \in SampleJson}
    \cup {<<FenceJson, JsonText(v)>> : v \in SampleJson}
    \cup {<<>>, <<Prose>>, <<FenceJson, Space, Fence>>,
          <<Fence, Fence, JsonText(JsonObject(PyList(<<>>), PyStr("because")))>>,
          <<JsonText(JsonObject(PyList(<<>>), PyStr("because"))), Prose,
            JsonText(JsonObject(PyList(<<>>), PyStr("because")))>>}

LlmOutcomes ==
  {[raises |-> FALSE, content |-> text, called |-> TRUE] : text \in LlmTexts}
    \cup {[raises |-> TRUE, content |-> <<>>, called |-> TRUE]}

NoLlm == [raises |-> FALSE, content |-> <<>>, called |-> FALSE]

\* QueryRouter._select_tools_with_reasoning as one function of its inputs.
SelectToolsWithReasoning(cfg, registry, q, llm) ==
  IF GetToolDescriptions(cfg, registry) = <<>>
  THEN Returned(Decision(<<>>, PyStr("No tools available for selection"), "absent"))
  ELSE SelectAfterInvoke(llm, GetKeywordSelectedTools(cfg, q), cfg, registry)

(***************************************************************************)
(* Inputs: results of tool.execute, outcomes of the response model call.   *)
(***************************************************************************)
\* n well-formed entries.
GoodItems(n) == [i \in 1..n |-> DictItem(i, TRUE, TRUE, TRUE)]

Success(payload, q, columns, collection) ==
  ToolResult(TRUE, payload, q, columns, collection, "missing")

Failure == ToolResult(FALSE, ListPayload(<<>>), "missing", "missing", "missing", "error")

GoodPayloads == {ListPayload(GoodItems(n)) : n \in 0..MaxPayload}

ToolResults ==
  [DocumentSearchTool |->
     {Success(p, "missing", "missing", "missing") : p \in GoodPayloads}
       \cup {Success(p, "missing", "missing", "missing") :
               p \in {ListPayload(<<StrItem(1)>>),
                      ListPayload(<<DictItem(1, FALSE, FALSE, FALSE)>>),
                      NullPayload}}
       \cup {Failure},
   MongoDBQueryTool |->
     {Success(p, "query", "missing", "students") : p \in GoodPayloads}
       \cup {Success(p, "query", "missing", "students") :
               p \in {ListPayload(<<NullItem(1)>>),
                      ListPayload(<<StrItem(1)>>),
                      ListPayload(<<DictItem(1, FALSE, TRUE, FALSE)>>),
                      ListPayload(<<DictItem(1, FALSE, FALSE, FALSE)>>)}}
       \cup {Success(ListPayload(GoodItems(1)), "unserializable", "missing", "students"),
             Success(ListPayload(GoodItems(1)), "missing", "missing", "missing")}
       \cup {Failure},
   SQLQueryTool |->
     {Success(p, "query", "list", "missing") : p \in GoodPayloads}
       \cup {Success(ListPayload(<<>>), "missing", "missing", "missing"),
             Success(ListPayload(GoodItems(1)), "query", "null", "missing"),
             Success(ListPayload(<<StrItem(1)>>), "query", "null", "missing"),
             Success(NullPayload, "query", "list", "missing")}
       \cup {Failure},
   WebSearchTool |->
     {Success(p, "query", "missing", "missing") : p \in GoodPayloads}
       \cup {Success(p, "query", "missing", "missing") :
               p \in {ListPayload(<<StrItem(1)>>),
                      ListPayload(<<DictItem(1, FALSE, FALSE, FALSE)>>)}}
       \cup {Failure},
   CalculatorTool |->
     {Success(ListPayload(GoodItems(1)), "query", "missing", "missing"), Failure}]

\* The keys a result map can hold: the known tool ids, and "CalculatorTool",
\* an id retrieve_context has no mapping for.
ResultKeys == DOMAIN ToolResults

\* What one call of tool.execute does: it raises, or it returns a result.
ExecuteOutcomes(tool_name) ==
  {[raises |-> TRUE, result |-> ErrorResult("raised")]}
    \cup {[raises |-> FALSE, result |-> r] :
            r \in {Success(ListPayload(GoodItems(1)), "query", "list", "students"), Failure}}

PyNone == [t |-> "None", v |-> ""]

ResponseOutcomes ==
  {[raises |-> TRUE, content |-> <<>>],
   [raises |-> FALSE, content |-> <<>>],
   [raises |-> FALSE, content |-> <<"T","h","e"," ","a","n","s","w","e","r",".">>],
   [raises |-> FALSE, content |-> <<"4","2">>]}

ChatHistories ==
  {PyNone, PyStr(<<>>),
   PyStr(<<"H","u","m","a","n",":"," ","h","i","\n","A","I",":"," ","o","k","\n">>)}

\* "I'm sorry, I encountered an error while generating a response."
APOLOGY ==
  <<"I","'","m"," ","s","o","r","r","y",","," ","I"," ","e","n","c","o","u",
    "n","t","e","r","e","d"," ","a","n"," ","e","r","r","o","r"," ","w","h",
    "i","l","e"," ","g","e","n","e","r","a","t","i","n","g"," ","a"," ","r",
    "e","s","p","o","n","s","e",".">>

(***************************************************************************)
(* MemoryManager: the table of conversation memories by session id.  A     *)
(* text is a sequence of characters; a rendered history is one too.        *)
(***************************************************************************)
\* The number of MemoryManager operations and reloads in one behaviour.
MaxOps == 4

Sessions == {"s1", "s2"}

\* Message texts: one line, and two lines.
Texts == {<<"h","i">>, <<"a","\n","b">>}

HumanMessage(content) == [type |-> "human", content |-> content]

AIMessage(content) == [type |-> "ai", content |-> content]

NoMemories == <<>>

\* What is known of a session's rendered history: nothing, the string the
\* last read returned, or that the session was cleared (and what it held).
NoRead == [kind |-> "none", value |-> <<>>]

NoOp == [n |-> 0, op |-> "none", session |-> "", value |-> <<>>, previous |-> NoRead]

\* The n-th operation: its name, its session, what it returned and what was
\* known of the session's rendered history before it.
Op(n, op, session, value, previous) ==
  [n |-> n, op |-> op, session |-> session, value |-> value, previous |-> previous]

MessagesOf(table, session) ==
  IF session \in DOMAIN table THEN table[session] ELSE <<>>

\* AgenticRAG.process_query: nothing returned or raised yet.
NoResponse == [status |-> "none"]

\* The tool_results argument of LangGraphAgent.process_query when a caller
\* other than AgenticRAG.process_query gives it: None, or a dict.
NotSupplied == [t |-> "absent", v |-> <<>>]

SuppliedNone == [t |-> "None", v |-> <<>>]

SuppliedDict(d) == [t |-> "dict", v |-> d]

\* "I'm sorry, I encountered an error while processing your query."
PROCESSING_APOLOGY ==
  <<"I","'","m"," ","s","o","r","r","y",","," ","I"," ","e","n","c","o","u",
    "n","t","e","r","e","d"," ","a","n"," ","e","r","r","o","r"," ","w","h",
    "i","l","e"," ","p","r","o","c","e","s","s","i","n","g"," ","y","o","u",
    "r"," ","q","u","e","r","y",".">>

\* MemoryManager.get_memory: the table once the session has a memory.
GetMemory(table, session) ==
  IF session \in DOMAIN table THEN table
  ELSE [x \in DOMAIN table \cup {session} |->
          IF x = session THEN <<>> ELSE table[x]]

\* MemoryManager.add_user_message
AddUserMessage(table, session, message) ==
  [GetMemory(table, session) EXCEPT ![session] = Append(@, HumanMessage(message))]

\* MemoryManager.add_ai_message
AddAiMessage(table, session, message) ==
  [GetMemory(table, session) EXCEPT ![session] = Append(@, AIMessage(message))]

\* MemoryManager.get_chat_history: the messages, and the table afterwards.
GetChatHistory(table, session) ==
  [table |-> GetMemory(table, session),
   value |-> GetMemory(table, session)[session]]

\* f"Human: {message.content}\n" and f"AI: {message.content}\n"
RenderMessage(message) ==
  (IF message.type = "human"
   THEN <<"H","u","m","a","n",":"," ">>
   ELSE <<"A","I",":"," ">>) \o message.content \o <<"\n">>

RECURSIVE RenderMessages(_)
RenderMessages(messages) ==
  IF messages = <<>> THEN <<>>
  ELSE RenderMessage(Head(messages)) \o RenderMessages(Tail(messages))

\* MemoryManager.get_chat_history_str: the string, and the table afterwards.
GetChatHistoryStr_NewestFirst(table, session) ==
  LET messages == GetChatHistory(table, session).value
      reversed == [i \in 1..Len(messages) |-> messages[Len(messages) + 1 - i]]
  IN [table |-> GetChatHistory(table, session).table,
      value |-> RenderMessages(reversed)]

GetChatHistoryStr(table, session) ==
  [table |-> GetChatHistory(table, session).table,
   value |-> RenderMessages(GetChatHistory(table, session).value)]

\* MemoryManager.clear_memory
ClearMemory_DropsNewestOnly(table, session) ==
  IF session \in DOMAIN table
  THEN [table EXCEPT ![session] = SubSeq(@, 1, Len(@) - 1)]
  ELSE table

ClearMemory(table, session) ==
  [x \in DOMAIN table \ {session} |-> table[x]]

(***************************************************************************)
(* State.                                                                  *)
(***************************************************************************)
VARIABLES
  bot_config,               \* BotConfig.tools
  tools,                    \* the registry: types of the initialised tools
  pc,                       \* position of the request in the pipeline
  query,                    \* the user query
  keyword_selected_tools,   \* local of _select_tools_with_reasoning
  selection_llm,            \* outcome of self.llm.invoke in the selector
  tool_selection_result,    \* the decision _select_tools_with_reasoning returns
  tool_names,               \* _execute_tools: the list it iterates
  tool_idx,                 \* _execute_tools: position of the for loop
  tool_responses,           \* _execute_tools: the dict it builds
  execute_log,              \* the calls of tool.execute made, in order
  tool_results,             \* AgentState.tool_results
  context,                  \* AgentState.context
  chat_history,             \* AgentState.chat_history
  response,                 \* AgentState.response
  error,                    \* AgentState.error
  llm_calls,                \* the calls of the response model: prompt and outcome
  memories,                 \* MemoryManager.memories of the bot's agent
  last_op,                  \* the last MemoryManager operation and what it returned
  appended,                 \* per session, the messages appended since its last clear
  last_read,                \* per session, what the last read or clear made known
  session_id,               \* QueryRequest.session_id
  supplied,                 \* the tool results the caller hands to the agent, if any
  api_response,             \* what AgenticRAG.process_query returned or raised
  workers                   \* the concurrent requests of one session

botVars == <<bot_config, tools>>

selectVars == <<query, keyword_selected_tools, selection_llm, tool_selection_result>>

executeVars == <<tool_names, tool_idx, tool_responses, execute_log>>

agentVars == <<tool_results, context, chat_history, response, error, llm_calls>>

memoryVars == <<memories, last_op, appended, last_read>>

pipelineVars == <<session_id, supplied, api_response>>

serviceVars == <<memoryVars, pipelineVars, workers>>

vars == <<bot_config, tools, pc, query, keyword_selected_tools, selection_llm,
          tool_selection_result, tool_names, tool_idx, tool_responses, execute_log,
          tool_results, context, chat_history, response, error, llm_calls,
          memories, last_op, appended, last_read, session_id, supplied,
          api_response,
          workers>>

\* AgenticRAG._load_bots for one bot: any configuration, any set of failing
\* tool constructors.
InitBot ==
  /\ bot_config \in BotConfigs
  /\ \E failing \in SUBSET (ConfigToolTypes \cap TOOL_CLASSES) :
        tools = InitializeTools(bot_config, failing)

InitSelectVars ==
  /\ keyword_selected_tools = <<>>
  /\ selection_llm = NoLlm
  /\ tool_selection_result = NoDecision

InitExecuteVars ==
  /\ tool_names = <<>>
  /\ tool_idx = 1
  /\ tool_responses = <<>>
  /\ execute_log = <<>>

\* initial_state of LangGraphAgent.process_query, before the graph runs.
InitAgentVars ==
  /\ tool_results = <<>>
  /\ context = <<>>
  /\ chat_history = PyNone
  /\ response = PyNone
  /\ error = PyNone
  /\ llm_calls = <<>>

\* MemoryManager.__init__: no memory yet; no request in flight.
InitMemoryVars ==
  /\ memories = NoMemories
  /\ last_op = NoOp
  /\ appended = [s \in Sessions |-> <<>>]
  /\ last_read = [s \in Sessions |-> NoRead]

InitPipelineVars ==
  /\ session_id = PyNone
  /\ supplied = NotSupplied
  /\ api_response = NoResponse

InitServiceVars ==
  /\ InitMemoryVars
  /\ InitPipelineVars
  /\ workers = <<>>

(***************************************************************************)
(* Tool selection.                                                         *)
(***************************************************************************)
\* _select_tools_with_reasoning up to the call of self.llm.invoke.
SelectBegin ==
  /\ pc = "select"
  /\ \E q \in Queries :
       /\ query' = q
       /\ IF GetToolDescriptions(bot_config, tools) = <<>>
          THEN /\ tool_selection_result' =
                    Decision(<<>>, PyStr("No tools available for selection"), "absent")
               /\ keyword_selected_tools' = <<>>
               /\ pc' = "selected"
          ELSE /\ keyword_selected_tools' = GetKeywordSelectedTools(bot_config, q)
               /\ tool_selection_result' = tool_selection_result
               /\ pc' = "llm_invoke"
  /\ UNCHANGED <<botVars, serviceVars, selection_llm, executeVars, agentVars>>

\* self.llm.invoke returns or raises; the rest of _select_tools_with_reasoning.
SelectInvoke ==
  /\ pc = "llm_invoke"
  /\ \E llm \in LlmOutcomes :
       LET r == SelectAfterInvoke(llm, keyword_selected_tools, bot_config, tools)
       IN /\ selection_llm' = llm
          /\ IF r.exc = "None"
             THEN tool_selection_result' = r.value /\ pc' = "selected"
             ELSE tool_selection_result' = tool_selection_result /\ pc' = "select_raised"
  /\ UNCHANGED <<botVars, serviceVars, query, keyword_selected_tools, executeVars, agentVars>>

InitSelect ==
  /\ InitServiceVars
  /\ InitBot /\ InitSelectVars /\ InitExecuteVars /\ InitAgentVars
  /\ query = <<>>
  /\ pc = "select"

NextSelect == SelectBegin \/ SelectInvoke

SpecSelect == InitSelect /\ [][NextSelect]_vars

(***************************************************************************)
(* Tool execution.                                                         *)
(***************************************************************************)
\* One iteration of the for loop of QueryRouter._execute_tools.
ExecuteStepOf_RecordsMissingTool(registry, responses, tool_name, outcome) ==
  IF tool_name \in registry
  THEN IF outcome.raises
       THEN DictSet(responses, tool_name, ErrorResult("str(e)"))
       ELSE DictSet(responses, tool_name, outcome.result)
  ELSE DictSet(responses, tool_name, ErrorResult("Tool not found"))

ExecuteStepOf(registry, responses, tool_name, outcome) ==
  IF tool_name \in registry
  THEN IF outcome.raises
       THEN DictSet(responses, tool_name, ErrorResult("str(e)"))
       ELSE DictSet(responses, tool_name, outcome.result)
  ELSE responses

ExecuteTool ==
  /\ pc = "execute"
  /\ tool_idx <= Len(tool_names)
  /\ LET tool_name == tool_names[tool_idx]
     IN \E outcome \in ExecuteOutcomes(tool_name) :
          /\ tool_responses' = ExecuteStepOf(tools, tool_responses, tool_name, outcome)
          /\ execute_log' =
               IF tool_name \in tools
               THEN Append(execute_log, [tool |-> tool_name, at |-> tool_idx,
                                         raises |-> outcome.raises,
                                         result |-> outcome.result])
               ELSE execute_log
  /\ tool_idx' = tool_idx + 1
  /\ UNCHANGED <<botVars, serviceVars, pc, tool_names, selectVars, agentVars>>

\* return tool_responses
ExecuteReturn ==
  /\ pc = "execute"
  /\ tool_idx > Len(tool_names)
  /\ pc' = "executed"
  /\ UNCHANGED <<botVars, serviceVars, selectVars, executeVars, agentVars>>

\* route_query hands the selected_tools of any decision the selector can
\* return for this bot to _execute_tools; the selector's locals are gone.
InitExecute ==
  /\ InitServiceVars
  /\ InitBot /\ InitAgentVars
  /\ query \in Queries
  /\ keyword_selected_tools = <<>>
  /\ selection_llm = NoLlm
  /\ \E llm \in LlmOutcomes :
        tool_selection_result =
          SelectToolsWithReasoning(bot_config, tools, query, llm).value
  /\ tool_names = tool_selection_result.selected_tools
  /\ tool_idx = 1
  /\ tool_responses = <<>>
  /\ execute_log = <<>>
  /\ pc = "execute"

NextExecute == ExecuteTool \/ ExecuteReturn

SpecExecute == InitExecute /\ [][NextExecute]_vars

(***************************************************************************)
(* The agent graph: retrieve_context, then generate_response.              *)
(***************************************************************************)
RetrieveContext ==
  /\ pc = "retrieve_context"
  /\ context' = RetrieveContextOf(context, tool_results)
  /\ pc' = "generate_response"
  /\ UNCHANGED <<botVars, serviceVars, selectVars, executeVars, tool_results, chat_history,
                 response, error, llm_calls>>

\* The messages of the primary path and the prompt of the fallback path.
SimpleMessages_HistoryUnlessNone(llm) ==
  [kind |-> "simple_messages", raised |-> llm.raises, output |-> llm.content,
   history |-> IF chat_history.t = "str" THEN <<chat_history.v>> ELSE <<>>,
   context |-> context,
   tools_used |-> DictKeys(tool_results),
   question |-> query]

\* history: the sections added to the system message, none or one.
SimpleMessages(llm) ==
  [kind |-> "simple_messages", raised |-> llm.raises, output |-> llm.content,
   history |-> IF chat_history.t = "str" /\ chat_history.v /= <<>>
               THEN <<chat_history.v>> ELSE <<>>,
   context |-> context,
   tools_used |-> DictKeys(tool_results),
   question |-> query]

FallbackPrompt(llm) ==
  [kind |-> "fallback_prompt", raised |-> llm.raises, output |-> llm.content,
   history |-> <<>>, context |-> context,
   tools_used |-> <<>>, question |-> query]

\* return {**state, "response": response_content, "error": None}
Answered_WithError(llm) == [response |-> PyStr(llm.content), error |-> PyStr("str(e)")]

Answered(llm) == [response |-> PyStr(llm.content), error |-> PyNone]

\* the except clause of generate_response
Apologised == [response |-> PyStr(APOLOGY), error |-> PyStr("str(e)")]

\* generate_response: the primary path up to and after self.llm.invoke.
GenerateResponse ==
  /\ pc = "generate_response"
  /\ \E llm \in ResponseOutcomes :
       /\ llm_calls' = Append(llm_calls, SimpleMessages(llm))
       /\ IF llm.raises
          THEN /\ pc' = "fallback_invoke"
               /\ UNCHANGED <<response, error>>
          ELSE /\ response' = Answered(llm).response
               /\ error' = Answered(llm).error
               /\ pc' = "END"
  /\ UNCHANGED <<botVars, serviceVars, selectVars, executeVars, tool_results, context, chat_history>>

\* generate_response: the fallback prompt after the primary path raised.
GenerateResponseFallback ==
  /\ pc = "fallback_invoke"
  /\ \E llm \in ResponseOutcomes :
       LET r == IF llm.raises THEN Apologised ELSE Answered(llm)
       IN /\ llm_calls' = Append(llm_calls, FallbackPrompt(llm))
          /\ response' = r.response
          /\ error' = r.error
  /\ pc' = "END"
  /\ UNCHANGED <<botVars, serviceVars, selectVars, executeVars, tool_results, context, chat_history>>

\* Every dict of at most MaxResultTools of the four tool ids, in any
\* insertion order, to results the tools can return.
MaxResultTools == 2

AnyToolResult == UNION {ToolResults[t] : t \in ResultKeys}

DictsOfSize(k) ==
  {d \in [1..k -> [key : ResultKeys, value : AnyToolResult]] :
     /\ \A i \in 1..k : d[i].value \in ToolResults[d[i].key]
     /\ \A i, j \in 1..k : i /= j => d[i].key /= d[j].key}

ToolResultDicts == UNION {DictsOfSize(k) : k \in 0..MaxResultTools}

InitAgent ==
  /\ InitServiceVars
  /\ bot_config = <<>> /\ tools = {}
  /\ InitSelectVars /\ InitExecuteVars
  /\ query = <<"h","i">>
  /\ tool_results \in ToolResultDicts
  /\ context = <<>>
  /\ chat_history \in ChatHistories
  /\ response = PyNone
  /\ error = PyNone
  /\ llm_calls = <<>>
  /\ pc = "retrieve_context"

NextAgent == RetrieveContext \/ GenerateResponse \/ GenerateResponseFallback

SpecAgent == InitAgent /\ [][NextAgent]_vars

(***************************************************************************)
(* Session memory: the operations of the bot's MemoryManager, clear-memory *)
(* and reload of the service.                                              *)
(***************************************************************************)
otherVars == <<pc, bot_config, selectVars, executeVars, agentVars, pipelineVars, workers>>

\* MemoryManager.add_user_message
MemAddUserMessage ==
  \E s \in Sessions, m \in Texts :
    /\ last_op.n < MaxOps
    /\ memories' = AddUserMessage(memories, s, m)
    /\ appended' = [appended EXCEPT ![s] = Append(@, HumanMessage(m))]
    /\ last_read' = [last_read EXCEPT ![s] = NoRead]
    /\ last_op' = Op(last_op.n + 1, "add_user_message", s, <<>>, NoRead)
    /\ UNCHANGED <<tools, otherVars>>

\* MemoryManager.add_ai_message
MemAddAiMessage ==
  \E s \in Sessions, m \in Texts :
    /\ last_op.n < MaxOps
    /\ memories' = AddAiMessage(memories, s, m)
    /\ appended' = [appended EXCEPT ![s] = Append(@, AIMessage(m))]
    /\ last_read' = [last_read EXCEPT ![s] = NoRead]
    /\ last_op' = Op(last_op.n + 1, "add_ai_message", s, <<>>, NoRead)
    /\ UNCHANGED <<tools, otherVars>>

\* MemoryManager.get_chat_history
MemGetChatHistory ==
  \E s \in Sessions :
    /\ last_op.n < MaxOps
    /\ memories' = GetChatHistory(memories, s).table
    /\ last_op' = Op(last_op.n + 1, "get_chat_history", s, <<>>, NoRead)
    /\ UNCHANGED <<tools, appended, last_read, otherVars>>

\* MemoryManager.get_chat_history_str
MemGetChatHistoryStr ==
  \E s \in Sessions :
    /\ last_op.n < MaxOps
    /\ memories' = GetChatHistoryStr(memories, s).table
    /\ last_op' = Op(last_op.n + 1, "get_chat_history_str", s,
                     GetChatHistoryStr(memories, s).value, last_read[s])
    /\ last_read' = [last_read EXCEPT ![s] =
                       [kind |-> "read", value |-> GetChatHistoryStr(memories, s).value]]
    /\ UNCHANGED <<tools, appended, otherVars>>

\* POST /bots/{bot_name}/clear-memory: MemoryManager.clear_memory
MemClearMemory ==
  \E s \in Sessions :
    /\ last_op.n < MaxOps
    /\ memories' = ClearMemory(memories, s)
    /\ appended' = [appended EXCEPT ![s] = <<>>]
    /\ last_read' = [last_read EXCEPT ![s] =
                       [kind |-> "cleared",
                        value |-> RenderMessages(MessagesOf(memories, s))]]
    /\ last_op' = Op(last_op.n + 1, "clear_memory", s, <<>>, NoRead)
    /\ UNCHANGED <<tools, otherVars>>

\* POST /reload: _load_bots builds the bot again, with a new LangGraphAgent
\* and so a new MemoryManager; a bot that fails to load keeps the old one.
ReloadBots ==
  \E loaded \in BOOLEAN, failing \in SUBSET (ConfigToolTypes \cap TOOL_CLASSES) :
    /\ last_op.n < MaxOps
    /\ IF loaded
       THEN /\ memories' = NoMemories
            /\ tools' = InitializeTools(bot_config, failing)
       ELSE UNCHANGED <<memories, tools>>
    /\ last_read' = [s \in Sessions |-> NoRead]
    /\ last_op' = Op(last_op.n + 1, "reload", "", <<>>, NoRead)
    /\ UNCHANGED <<appended, otherVars>>

InitMemory ==
  /\ bot_config = <<>>
  /\ tools = {}
  /\ pc = "idle"
  /\ query = <<>>
  /\ InitSelectVars
  /\ InitExecuteVars
  /\ InitAgentVars
  /\ InitServiceVars

NextMemory ==
  \/ MemAddUserMessage
  \/ MemAddAiMessage
  \/ MemGetChatHistory
  \/ MemGetChatHistoryStr
  \/ MemClearMemory
  \/ ReloadBots

SpecMemory == InitMemory /\ [][NextMemory]_vars

(***************************************************************************)
(* The query pipeline: AgenticRAG.process_query, and LangGraphAgent's      *)
(* process_query around the graph.                                         *)
(***************************************************************************)
\* The selection model outcomes, queries and bots of the pipeline runs.
PipelineLlmOutcomes ==
  {[raises |-> TRUE, content |-> <<>>, called |-> TRUE]}
    \cup {[raises |-> FALSE, content |-> text, called |-> TRUE] :
            text \in {<<Prose>>,
                      <<JsonText(JsonObject(PyList(<<>>), PyStr("because")))>>,
                      <<JsonText(JsonObject(PyList(<<>>), DictField))>>,
                      <<JsonText(JsonObject(PyList(<<PyStr("SQLQueryTool")>>),
                                            DictField))>>,
                      <<JsonText(JsonObject(PyList(<<PyStr("WebSearchTool")>>),
                                            NullField))>>,
                      <<JsonText(JsonObject(PyList(<<PyStr("SQLQueryTool"),
                                                     PyStr("WebSearchTool")>>),
                                            PyStr("because")))>>}}

PipelineQueries == {<<"h","i">>, <<"S","Q","L"," ","d","a","t","a">>}

PipelineBotConfig ==
  <<[type |-> "SQLQueryTool", enabled |-> TRUE],
    [type |-> "WebSearchTool", enabled |-> TRUE]>>

PriorMessages == <<HumanMessage(<<"h","i">>), AIMessage(<<"o","k">>)>>

\* if session_id: / if result["response"]:
TruthyText(value) == value.t = "str" /\ value.v /= <<>>

\* route_query: the dict it returns.
RouteResult(decision, responses) ==
  [tool_responses |-> responses,
   selected_tools |-> decision.selected_tools,
   tool_selection_reasoning |-> IF decision.reasoning.t = "missing"
                                THEN NullField ELSE decision.reasoning,
   raw_llm_output |-> decision.raw_llm_output]

\* route_query up to the call of _execute_tools: the whole selection.
RouteQuerySelect ==
  /\ pc = "route_query"
  /\ \E llm \in PipelineLlmOutcomes :
       LET selection == SelectToolsWithReasoning(bot_config, tools, query, llm)
       IN /\ selection.exc = "None"
          /\ tool_selection_result' = selection.value
          /\ tool_names' = selection.value.selected_tools
          /\ selection_llm' = IF GetToolDescriptions(bot_config, tools) = <<>>
                              THEN NoLlm ELSE llm
          /\ keyword_selected_tools' = GetKeywordSelectedTools(bot_config, query)
          /\ pc' = "execute"
  /\ UNCHANGED <<botVars, serviceVars, query, tool_idx, tool_responses,
                 execute_log, agentVars>>

\* The tool results the agent is called with.
AgentToolResults_AlwaysRouted == SuppliedDict(tool_responses)

AgentToolResults ==
  IF supplied.t = "absent" THEN SuppliedDict(tool_responses) ELSE supplied

\* LangGraphAgent.process_query up to self.graph.invoke: the history read
\* and the initial state; None for tool_results raises on .keys().
AgentProcessQuery ==
  /\ \/ pc = "executed" /\ supplied.t = "absent"
     \/ pc = "agent_process_query"
  /\ IF AgentToolResults.t = "None"
     THEN /\ response' = PyStr(PROCESSING_APOLOGY)
          /\ error' = PyStr("str(e)")
          /\ pc' = "agent_returned"
          /\ UNCHANGED <<tool_results, context, chat_history, memoryVars>>
     ELSE /\ tool_results' = AgentToolResults.v
          /\ context' = <<>>
          /\ response' = PyNone
          /\ error' = PyNone
          /\ pc' = "retrieve_context"
          /\ IF session_id.t = "str" /\ session_id.v /= ""
             THEN LET read == GetChatHistoryStr(memories, session_id.v)
                  IN /\ chat_history' = PyStr(read.value)
                     /\ memories' = read.table
                     /\ last_op' = Op(last_op.n + 1, "get_chat_history_str",
                                      session_id.v, read.value,
                                      last_read[session_id.v])
                     /\ last_read' = [last_read EXCEPT ![session_id.v] =
                                        [kind |-> "read", value |-> read.value]]
                     /\ UNCHANGED appended
             ELSE /\ chat_history' = PyNone
                  /\ UNCHANGED memoryVars
  /\ UNCHANGED <<botVars, selectVars, executeVars, llm_calls, pipelineVars, workers>>

\* The table after the conversation of one query is saved.
SaveConversation(table, session, q, answer) ==
  IF TruthyText(answer)
  THEN AddAiMessage(AddUserMessage(table, session, q), session, answer.v)
  ELSE AddUserMessage(table, session, q)

SavedMessages(q, answer) ==
  IF TruthyText(answer)
  THEN <<HumanMessage(q), AIMessage(answer.v)>>
  ELSE <<HumanMessage(q)>>

\* LangGraphAgent.process_query after self.graph.invoke.
AgentSave ==
  /\ pc = "END"
  /\ pc' = "agent_returned"
  /\ IF session_id.t = "str" /\ session_id.v /= ""
     THEN /\ memories' = SaveConversation(memories, session_id.v, query, response)
          /\ appended' = [appended EXCEPT ![session_id.v] =
                            @ \o SavedMessages(query, response)]
          /\ last_read' = [last_read EXCEPT ![session_id.v] = NoRead]
          /\ last_op' = Op(last_op.n + Len(SavedMessages(query, response)),
                           IF TruthyText(response)
                           THEN "add_ai_message" ELSE "add_user_message",
                           session_id.v, <<>>, NoRead)
     ELSE UNCHANGED memoryVars
  /\ UNCHANGED <<botVars, selectVars, executeVars, agentVars, pipelineVars, workers>>

\* AgenticRAG.process_query: QueryResponse(...) validates its fields;
\* tool_selection_reasoning is Optional[str].
QueryResponse(agent_response, routed) ==
  IF routed.tool_selection_reasoning.t \notin {"str", "null"}
  THEN [status |-> "raised", exc |-> "ValidationError",
        response |-> PyNone, error |-> PyNone,
        selected_tools |-> <<>>, tool_responses |-> <<>>]
  ELSE [status |-> "returned", exc |-> "None",
        response |-> agent_response.response,
        error |-> IF agent_response.error.t = "str"
                  THEN agent_response.error ELSE PyNone,
        selected_tools |-> routed.selected_tools,
        tool_responses |-> routed.tool_responses]

\* AgenticRAG.process_query after the agent returned: it returns the
\* QueryResponse, or raises again what building it raised.
ProcessQueryReturn ==
  /\ pc = "agent_returned"
  /\ supplied.t = "absent"
  /\ api_response' = QueryResponse([response |-> response, error |-> error],
                                   RouteResult(tool_selection_result, tool_responses))
  /\ pc' = IF api_response'.status = "raised" THEN "raised" ELSE "Done"
  /\ UNCHANGED <<botVars, selectVars, executeVars, agentVars, memoryVars,
                 session_id, supplied, workers>>

\* LangGraphAgent.process_query returns to a caller that supplied the results.
AgentReturn ==
  /\ pc = "agent_returned"
  /\ supplied.t /= "absent"
  /\ api_response' = [status |-> "returned", exc |-> "None",
                      response |-> response, error |-> error,
                      selected_tools |-> <<>>, tool_responses |-> <<>>]
  /\ pc' = "Done"
  /\ UNCHANGED <<botVars, selectVars, executeVars, agentVars, memoryVars,
                 session_id, supplied, workers>>

\* A request to AgenticRAG.process_query, or a call of the agent with the
\* caller's tool results.
InitPipeline ==
  /\ bot_config = PipelineBotConfig
  /\ \E failing \in {{}, {"SQLQueryTool"}} :
        tools = InitializeTools(bot_config, failing)
  /\ query \in PipelineQueries
  /\ InitSelectVars
  /\ InitExecuteVars
  /\ InitAgentVars
  /\ session_id \in {PyNone, PyStr("s1")}
  /\ \/ /\ memories = NoMemories
        /\ appended = [s \in Sessions |-> <<>>]
     \/ /\ memories = AddAiMessage(AddUserMessage(NoMemories, "s1", <<"h","i">>),
                                   "s1", <<"o","k">>)
        /\ appended = [s \in Sessions |-> IF s = "s1" THEN PriorMessages ELSE <<>>]
  /\ last_op = NoOp
  /\ last_read = [s \in Sessions |-> NoRead]
  /\ api_response = NoResponse
  /\ workers = <<>>
  /\ \/ supplied = NotSupplied /\ pc = "route_query"
     \/ /\ supplied \in {SuppliedNone, SuppliedDict(<<>>)}
                          \cup {SuppliedDict(<<[key |-> "SQLQueryTool", value |-> r]>>) :
                                  r \in {Failure,
                                         Success(ListPayload(GoodItems(1)),
                                                 "query", "list", "missing")}}
        /\ pc = "agent_process_query"

NextPipeline ==
  \/ RouteQuerySelect
  \/ ExecuteTool
  \/ ExecuteReturn
  \/ AgentProcessQuery
  \/ RetrieveContext
  \/ GenerateResponse
  \/ GenerateResponseFallback
  \/ AgentSave
  \/ ProcessQueryReturn
  \/ AgentReturn

SpecPipeline == InitPipeline /\ [][NextPipeline]_vars

\* The model and the tools are blocking calls that return or raise.
SpecPipelineLive == SpecPipeline /\ WF_vars(NextPipeline)

(***************************************************************************)
(* Concurrent requests of one session: the coroutines of query_bot on the  *)
(* event loop.  A coroutine gives up control only at an await that blocks: *)
(* while the tools execute in route_query.  LangGraphAgent.process_query   *)
(* has no await, so it runs from its first line to its return in one step. *)
(***************************************************************************)
MaxWorkers == 2

Workers == 1..MaxWorkers

\* What generate_response can leave in state["response"].
AgentAnswers ==
  {PyStr(outcome.content) : outcome \in {o \in ResponseOutcomes : ~o.raises}}
    \cup {PyStr(APOLOGY)}

\* await query_router.route_query(...) completes.
WorkerRouteQuery ==
  \E w \in Workers :
    /\ workers[w].pc = "route_query"
    /\ workers' = [workers EXCEPT ![w].pc = "agent"]
    /\ UNCHANGED <<botVars, pc, selectVars, executeVars, agentVars, memoryVars,
                   pipelineVars>>

\* await agent.process_query(...): the history read, the graph, the save.
WorkerAgentProcessQuery ==
  \E w \in Workers, answer \in AgentAnswers :
    LET session == workers[w].session_id
        read == GetChatHistoryStr(memories, session)
    IN /\ workers[w].pc = "agent"
       /\ memories' = SaveConversation(read.table, session, workers[w].query, answer)
       /\ appended' = [appended EXCEPT ![session] =
                         @ \o SavedMessages(workers[w].query, answer)]
       /\ last_read' = [last_read EXCEPT ![session] = NoRead]
       /\ last_op' = Op(last_op.n + 1 + Len(SavedMessages(workers[w].query, answer)),
                        IF TruthyText(answer)
                        THEN "add_ai_message" ELSE "add_user_message",
                        session, <<>>, NoRead)
       /\ workers' = [workers EXCEPT ![w].pc = "done", ![w].response = answer]
       /\ UNCHANGED <<botVars, pc, selectVars, executeVars, agentVars, pipelineVars>>

InitConcurrent ==
  /\ bot_config = PipelineBotConfig
  /\ tools = InitializeTools(bot_config, {})
  /\ pc = "serving"
  /\ query = <<>>
  /\ InitSelectVars
  /\ InitExecuteVars
  /\ InitAgentVars
  /\ InitMemoryVars
  /\ InitPipelineVars
  /\ workers \in [Workers -> {[pc |-> "route_query", session_id |-> "s1",
                               query |-> q, response |-> PyNone] :
                                q \in PipelineQueries}]

NextConcurrent == WorkerRouteQuery \/ WorkerAgentProcessQuery

SpecConcurrent == InitConcurrent /\ [][NextConcurrent]_vars

(***************************************************************************)
(* The HTTP endpoints of main.py: query_bot and clear_memory.  A handler   *)
(* raises HTTPException inside its own try block; HTTPException is an      *)
(* Exception and not a ValueError.                                         *)
(***************************************************************************)
BotNames == {"atlas", "nobot"}

\* rag.get_bot(bot_name): the loaded bots
LoadedBots == {"atlas"}

NoException == [exc |-> "None", status_code |-> 0]

HTTPException(status_code) == [exc |-> "HTTPException", status_code |-> status_code]

\* pydantic's ValidationError of QueryResponse(...), a ValueError
ValidationError == [exc |-> "ValueError", status_code |-> 0]

\* What the except clauses of query_bot make of an exception of its try block.
QueryBotStatus(raised) ==
  CASE raised.exc = "None" -> 200
    [] raised.exc = "ValueError" -> 400
    [] OTHER -> 500

\* What the except clause of clear_memory makes of one.
ClearMemoryStatus(raised) ==
  IF raised.exc = "None" THEN 200 ELSE 500

HttpResponse(endpoint, bot_name, session, raised, status_code, before) ==
  [status |-> "http", endpoint |-> endpoint, bot_name |-> bot_name,
   session |-> session, raised |-> raised, status_code |-> status_code,
   before |-> before]

\* POST /bots/{bot_name}/query
HttpQueryBot ==
  \E bot_name \in BotNames, s \in Sessions, text \in Texts,
     outcome \in {NoException, ValidationError} :
    LET raised == IF bot_name \notin LoadedBots THEN HTTPException(404) ELSE outcome
        read == GetChatHistoryStr(memories, s)
        answer == PyStr(<<"o","k">>)
    IN /\ last_op.n < MaxOps
       /\ IF bot_name \in LoadedBots
          THEN /\ memories' = SaveConversation(read.table, s, text, answer)
               /\ appended' = [appended EXCEPT ![s] = @ \o SavedMessages(text, answer)]
               /\ last_read' = [last_read EXCEPT ![s] = NoRead]
          ELSE UNCHANGED <<memories, appended, last_read>>
       /\ last_op' = Op(last_op.n + 1, "query_bot", s, <<>>, NoRead)
       /\ api_response' = HttpResponse("query", bot_name, PyStr(s), raised,
                                       QueryBotStatus(raised), memories)
       /\ UNCHANGED <<botVars, pc, selectVars, executeVars, agentVars, session_id,
                      supplied, workers>>

\* POST /bots/{bot_name}/clear-memory
HttpClearMemory ==
  \E bot_name \in BotNames, sid \in {PyNone} \cup {PyStr(s) : s \in Sessions} :
    LET raised == IF bot_name \notin LoadedBots THEN HTTPException(404)
                  ELSE IF sid = PyNone THEN HTTPException(400)
                  ELSE NoException
    IN /\ last_op.n < MaxOps
       /\ IF raised = NoException
          THEN /\ memories' = ClearMemory(memories, sid.v)
               /\ appended' = [appended EXCEPT ![sid.v] = <<>>]
               /\ last_read' = [last_read EXCEPT ![sid.v] =
                                  [kind |-> "cleared",
                                   value |-> RenderMessages(MessagesOf(memories, sid.v))]]
          ELSE UNCHANGED <<memories, appended, last_read>>
       /\ last_op' = Op(last_op.n + 1, "clear_memory", "", <<>>, NoRead)
       /\ api_response' = HttpResponse("clear-memory", bot_name, sid, raised,
                                       ClearMemoryStatus(raised), memories)
       /\ UNCHANGED <<botVars, pc, selectVars, executeVars, agentVars, session_id,
                      supplied, workers>>

InitHttp ==
  /\ bot_config = PipelineBotConfig
  /\ tools = InitializeTools(bot_config, {})
  /\ pc = "serving"
  /\ query = <<>>
  /\ InitSelectVars
  /\ InitExecuteVars
  /\ InitAgentVars
  /\ InitServiceVars

NextHttp == HttpQueryBot \/ HttpClearMemory

SpecHttp == InitHttp /\ [][NextHttp]_vars

(***************************************************************************)
(* Properties of the tool selector (SpecSelect).                           *)
(***************************************************************************)
Selected == tool_selection_result.selected_tools

\* What json.loads makes of the text the selection model returned.
ParsedOutput == JsonLoads(ExtractJsonFromResponse(Strip(selection_llm.content)).json_str)

ModelReturned == selection_llm.called /\ ~selection_llm.raises

\* C1: every tool id of a returned decision is the type of a tool whose
\* configuration is enabled, whatever the selection model returned or raised.
C1_SelectedAreEnabled ==
  pc = "selected" =>
    \A i \in 1..Len(Selected) :
      \E j \in 1..Len(bot_config) :
        bot_config[j].type = Selected[i] /\ bot_config[j].enabled

\* The model call failed on a query naming the web while the web search
\* tool is disabled: the fallback selection leaves it out.
C1_Witness ==
  /\ pc = "selected"
  /\ selection_llm.raises
  /\ query = <<"S","e","a","r","c","h"," ","t","h","e"," ","W","e","b">>
  /\ \E j \in 1..Len(bot_config) :
        bot_config[j].type = "WebSearchTool" /\ ~bot_config[j].enabled
  /\ Selected /= <<>>

\* C2: when the model's output parses to an object whose selected_tools is
\* the empty list, the returned selection is empty, keyword matches or not.
C2_ExplicitEmptyHonoured ==
  ( /\ pc = "selected"
    /\ ModelReturned
    /\ ParsedOutput.exc = "None"
    /\ ParsedOutput.value.t = "object"
    /\ ParsedOutput.value.selected_tools = PyList(<<>>) )
  => Selected = <<>>

C2_Witness ==
  /\ pc = "selected"
  /\ ModelReturned
  /\ ParsedOutput.exc = "None"
  /\ ParsedOutput.value.t = "object"
  /\ ParsedOutput.value.selected_tools = PyList(<<>>)
  /\ keyword_selected_tools /= <<>>
  /\ Selected = <<>>

\* The model call was made and gave no usable decision: it raised, its text
\* is not JSON, the object lacks selected_tools, or the list is non-empty
\* and none of its entries is a known tool.
NoUsableDecision ==
  /\ selection_llm.called
  /\ \/ selection_llm.raises
     \/ ParsedOutput.exc = "JSONDecodeError"
     \/ /\ ParsedOutput.value.t = "object"
        /\ ParsedOutput.value.selected_tools.t = "missing"
     \/ /\ ParsedOutput.value.t = "object"
        /\ ParsedOutput.value.selected_tools.t = "list"
        /\ ParsedOutput.value.selected_tools.items /= <<>>
        /\ \A i \in 1..Len(ParsedOutput.value.selected_tools.items) :
              LET entry == ParsedOutput.value.selected_tools.items[i]
              IN ~(entry.t = "str" /\ entry.v \in tools)

\* C3: without a usable model decision the selection is the keyword
\* pre-scan result when that is non-empty, else all enabled tool ids.
C3_FallbackOrder ==
  (pc = "selected" /\ NoUsableDecision) =>
    Selected = IF keyword_selected_tools /= <<>>
               THEN keyword_selected_tools
               ELSE EnabledTypes(bot_config)

\* The object lacks selected_tools and the keyword pre-scan found a proper
\* part of the enabled tools.
C3_Witness ==
  /\ pc = "selected"
  /\ NoUsableDecision
  /\ ModelReturned
  /\ ParsedOutput.value.t = "object"
  /\ ParsedOutput.value.selected_tools.t = "missing"
  /\ keyword_selected_tools /= <<>>
  /\ keyword_selected_tools /= EnabledTypes(bot_config)
  /\ Selected = keyword_selected_tools

\* C4: Select never raises and returns a decision holding a selected_tools
\* list and a reasoning string, for every outcome of the model call.
C4_NeverRaisesReasoningString ==
  /\ pc /= "select_raised"
  /\ pc = "selected" => tool_selection_result.reasoning.t = "str"

\* C5: every tool id of a returned decision is one of the descriptors
\* offered to the model: enabled and present in the registry.
C5_SelectedAreOffered ==
  pc = "selected" =>
    \A i \in 1..Len(Selected) :
      Selected[i] \in Range(GetToolDescriptions(bot_config, tools))

(***************************************************************************)
(* Properties of the tool executor (SpecExecute).                          *)
(***************************************************************************)
\* C6: a tool whose execute raised has the entry {success: false, error},
\* every selected registered tool was invoked and a tool that did not raise
\* has a result it returned, once the executor has returned.
C6_RaisingToolIsolated ==
  pc = "executed" =>
    /\ \A k \in 1..Len(execute_log) :
         execute_log[k].raises =>
           /\ DictHas(tool_responses, execute_log[k].tool)
           /\ DictGet(tool_responses, execute_log[k].tool) = ErrorResult("str(e)")
    /\ \A i \in 1..Len(tool_names) :
         tool_names[i] \in tools =>
           \E k \in 1..Len(execute_log) :
             /\ execute_log[k].tool = tool_names[i]
             /\ execute_log[k].at = i
             /\ ~execute_log[k].raises =>
                  DictGet(tool_responses, tool_names[i]) \in
                    {execute_log[m].result : m \in 1..Len(execute_log)}
                      \cup {ErrorResult("str(e)")}

\* C7: the keys of the result map are exactly the selected ids present in
\* the registry, and only selected tools are invoked.
C7_ResultKeys ==
  /\ \A k \in 1..Len(execute_log) :
        execute_log[k].tool \in Range(tool_names) \cap tools
  /\ Range(DictKeys(tool_responses)) \subseteq Range(tool_names) \cap tools
  /\ pc = "executed" =>
        Range(DictKeys(tool_responses)) = Range(tool_names) \cap tools

\* A selected id is absent from the registry, another one was executed.
C7_Witness ==
  /\ pc = "executed"
  /\ \E i \in 1..Len(tool_names) : tool_names[i] \notin tools
  /\ tool_responses /= <<>>
  /\ Range(DictKeys(tool_responses)) = Range(tool_names) \cap tools

(***************************************************************************)
(* Properties of the agent graph (SpecAgent).                              *)
(***************************************************************************)
Normalized == pc \in {"generate_response", "fallback_invoke", "END"}

\* The source labels retrieve_context gives to the items of each tool.
SourceLabels ==
  [DocumentSearchTool |-> {"Document"},
   MongoDBQueryTool |-> {"MongoDB"},
   SQLQueryTool |-> {"SQL Query", "SQL Database Results", "SQL Database",
                     "SQL Database Error"},
   WebSearchTool |-> {"Web"}]

EvidenceOf(tool_name) ==
  LET FromTool(item) == item.source[1] \in SourceLabels[tool_name]
  IN SelectSeq(context, FromTool)

\* The result of the tool is successful and its payload is the empty list.
EmptySuccess(tool_name) ==
  /\ DictHas(tool_results, tool_name)
  /\ DictGet(tool_results, tool_name).success
  /\ DictGet(tool_results, tool_name).payload = ListPayload(<<>>)

MappingOf(tool_name) ==
  CASE tool_name = "DocumentSearchTool" -> DocumentContext(tool_results)
    [] tool_name = "MongoDBQueryTool" -> MongoContext(tool_results)
    [] tool_name = "SQLQueryTool" -> SqlContext(tool_results)
    [] tool_name = "WebSearchTool" -> WebContext(tool_results)

\* C8, as stated: for every tool kind a successful result with an empty
\* payload list contributes no evidence item to the normalized context.
C8_EmptyPayloadNoEvidence ==
  Normalized =>
    \A tool_name \in TOOL_CLASSES :
      EmptySuccess(tool_name) => EvidenceOf(tool_name) = <<>>

\* C8, amended: a successful result with an empty payload list contributes
\* nothing for document search, MongoDB and web search; for SQL it
\* contributes no table and no row item, and exactly the executed-query item
\* when the result carries a query and no other mapping raised.
C8_EmptyPayloadOnlyQueryItem ==
  Normalized =>
    /\ \A tool_name \in {"DocumentSearchTool", "MongoDBQueryTool", "WebSearchTool"} :
         EmptySuccess(tool_name) => EvidenceOf(tool_name) = <<>>
    /\ EmptySuccess("SQLQueryTool") =>
         IF /\ DictGet(tool_results, "SQLQueryTool").query /= "missing"
            /\ DocumentContext(tool_results).exc = "None"
            /\ MongoContext(tool_results).exc = "None"
            /\ WebContext(tool_results).exc = "None"
         THEN /\ Len(EvidenceOf("SQLQueryTool")) = 1
              /\ EvidenceOf("SQLQueryTool")[1].source = <<"SQL Query">>
         ELSE EvidenceOf("SQLQueryTool") = <<>>

\* SQL and web search both succeeded with no rows and no hits: the context
\* is the executed query alone.
C8_Witness ==
  /\ Normalized
  /\ EmptySuccess("SQLQueryTool")
  /\ EmptySuccess("WebSearchTool")
  /\ DictGet(tool_results, "SQLQueryTool").query /= "missing"
  /\ Len(context) = 1
  /\ context[1].source = <<"SQL Query">>

\* C9: retrieve_context never raises, and the items of every tool whose own
\* mapping does not raise are in the context, whatever the other payloads.
C9_MappingErrorIsolated ==
  Normalized =>
    \A tool_name \in TOOL_CLASSES :
      MappingOf(tool_name).exc = "None" =>
        \A i \in 1..Len(MappingOf(tool_name).items) :
          \E j \in 1..Len(context) : context[j] = MappingOf(tool_name).items[i]

\* C10: generate_response ends with a non-empty answer, and with the
\* apology and an error when the model call failed on both paths.
C10_NonEmptyAnswer ==
  pc = "END" =>
    /\ response.t = "str"
    /\ response.v /= <<>>
    /\ (\A k \in 1..Len(llm_calls) : llm_calls[k].raised) =>
          (response.v = APOLOGY /\ error /= PyNone)

\* C21: for a successful SQL result with a query text and n >= 1 rows the
\* context holds exactly n + 2 SQL items: the executed query, the table of
\* all rows, then one item per row in row order; for a failed SQL result it
\* holds exactly one item, labelled as an error and carrying the error text.
C21_SqlEvidenceItems ==
  (Normalized /\ DictHas(tool_results, "SQLQueryTool")) =>
    LET sql_results == DictGet(tool_results, "SQLQueryTool")
        rows == sql_results.payload.items
        items == EvidenceOf("SQLQueryTool")
    IN /\ (/\ sql_results.success
           /\ sql_results.query /= "missing"
           /\ sql_results.payload.t = "list"
           /\ Len(rows) >= 1) =>
            /\ Len(items) = Len(rows) + 2
            /\ items[1].source = <<"SQL Query">>
            /\ items[2].source = <<"SQL Database Results">>
            /\ items[2].content.ns = [i \in 1..Len(rows) |-> rows[i].n]
            /\ \A i \in 1..Len(rows) :
                 items[i + 2] = Evidence(<<"SQL Database">>,
                                         Content("str(result)", <<rows[i].n>>),
                                         "absent")
       /\ ~sql_results.success =>
            items = <<Evidence(<<"SQL Database Error">>,
                               Content("SQL query failed", <<>>), "absent")>>

\* The keys of the result map whose result contributes nothing: a failed
\* result of a tool other than the SQL tool, and any result of an unknown id.
Omitted ==
  {k \in Range(DictKeys(tool_results)) :
     \/ k \notin TOOL_CLASSES
     \/ k /= "SQLQueryTool" /\ ~DictGet(tool_results, k).success}

\* C22: a failed result of document search, MongoDB or web search, and any
\* result of an unknown tool id, contributes no evidence item: the context
\* is the one of the result map without these entries, and the map itself
\* still holds them unchanged.
C22_FailedResultsOmitted ==
  [][pc = "retrieve_context" =>
       LET IsKept(entry) == entry.key \notin Omitted
       IN /\ context' = RetrieveContextOf(context, SelectSeq(tool_results, IsKept))
          /\ \A k \in Omitted : k \in TOOL_CLASSES => EvidenceOf(k)' = <<>>
          /\ tool_results' = tool_results]_vars

\* The web search failed next to a successful SQL result; the context holds
\* SQL items only, the map still holds the failed web result.
C22_Witness ==
  /\ Normalized
  /\ "WebSearchTool" \in Omitted
  /\ DictGet(tool_results, "WebSearchTool") = Failure
  /\ "CalculatorTool" \notin Range(DictKeys(tool_results))
  /\ context /= <<>>
  /\ EvidenceOf("SQLQueryTool") = context

\* C23: for a successful MongoDB result the context holds exactly one item
\* per record, in record order; its source names the collection and its
\* content is the record's page_content when the record has one and the
\* stringified record otherwise, also for a record without page_content
\* and without _id.
C23_MongoRecordItems ==
  (/\ Normalized
   /\ DictHas(tool_results, "MongoDBQueryTool")
   /\ DictGet(tool_results, "MongoDBQueryTool").success
   /\ DictGet(tool_results, "MongoDBQueryTool").payload.t = "list") =>
    LET mongo_results == DictGet(tool_results, "MongoDBQueryTool")
        records == mongo_results.payload.items
        items == EvidenceOf("MongoDBQueryTool")
    IN /\ Len(items) = Len(records)
       /\ \A i \in 1..Len(records) :
            /\ items[i].source[1] = "MongoDB"
            /\ mongo_results.collection /= "missing" =>
                 items[i].source[2] = mongo_results.collection
            /\ items[i].content =
                 IF records[i].has_text
                 THEN Content("page_content", <<records[i].n>>)
                 ELSE Content("str(result)", <<records[i].n>>)

(***************************************************************************)
(* Properties of the JSON extraction (SpecSelect).                         *)
(***************************************************************************)
\* The candidate of each extraction method on a text, empty when the method
\* does not apply, and the first of them that is not empty.
FirstNonEmptyCandidate(text) ==
  LET i1 == FirstIndex(FenceJsonAt(text))
      rest1 == AfterSplit(text, i1, "fence_json")
      i2 == FirstIndex(FenceAt(text))
      rest2 == AfterSplit(text, i2, "fence")
      tagged == IF i1 /= 0 /\ FenceAt(rest1) /= {}
                THEN Strip(BeforeFence(rest1)) ELSE <<>>
      fenced == IF i2 /= 0 /\ FenceAt(rest2) /= {}
                THEN Strip(BeforeFence(rest2)) ELSE <<>>
      braces == IF BraceAt(text) /= {}
                THEN SubSeq(text, FirstIndex(BraceAt(text)), LastIndex(BraceAt(text)))
                ELSE <<>>
  IN IF tagged /= <<>> THEN tagged
     ELSE IF fenced /= <<>> THEN fenced
     ELSE IF braces /= <<>> THEN braces
     ELSE text

\* C20: the extraction returns the candidate of the first method, in the
\* order tagged fence, any fence, braces, full text, whose candidate is not
\* empty; a method with an empty candidate is passed over.
C20_FirstNonEmptyCandidateWins ==
  (pc = "selected" /\ ModelReturned) =>
    ExtractJsonFromResponse(Strip(selection_llm.content)).json_str
      = FirstNonEmptyCandidate(Strip(selection_llm.content))

(***************************************************************************)
(* Properties of the session memory (SpecMemory).                          *)
(***************************************************************************)
TranscriptRead == last_op.op = "get_chat_history_str"

\* C15: a transcript read returns what the previous read of the session
\* returned when nothing was appended, cleared or reloaded in between, and
\* the empty string when the session was cleared and nothing appended since.
C15_TranscriptIdempotent ==
  TranscriptRead =>
    /\ last_op.previous.kind = "read" => last_op.value = last_op.previous.value
    /\ last_op.previous.kind = "cleared" => last_op.value = <<>>

\* A session that held messages was cleared and then read.
C15_Witness ==
  /\ TranscriptRead
  /\ last_op.previous.kind = "cleared"
  /\ last_op.previous.value /= <<>>
  /\ last_op.value = <<>>

\* str.splitlines()
RECURSIVE SplitLines(_)
SplitLines(str) ==
  IF str = <<>> THEN <<>>
  ELSE IF \E i \in 1..Len(str) : str[i] = "\n"
  THEN LET i == CHOOSE k \in 1..Len(str) :
                  str[k] = "\n" /\ \A j \in 1..(k - 1) : str[j] /= "\n"
       IN <<SubSeq(str, 1, i - 1)>> \o SplitLines(SubSeq(str, i + 1, Len(str)))
  ELSE <<str>>

RECURSIVE Flatten(_)
Flatten(strs) ==
  IF strs = <<>> THEN <<>> ELSE Head(strs) \o Flatten(Tail(strs))

\* 'Human: <text>' and 'AI: <text>'
LineOf(message) ==
  IF message.type = "human"
  THEN <<"H","u","m","a","n",":"," ">> \o message.content
  ELSE <<"A","I",":"," ">> \o message.content

ReadMessages == MessagesOf(memories, last_op.session)

\* C16, as stated: the transcript has exactly one line per message, in append
\* order: 'Human: u' then 'AI: a' after AppendUser(u), AppendAssistant(a).
C16_OneLinePerMessage ==
  TranscriptRead =>
    SplitLines(last_op.value) = [i \in 1..Len(ReadMessages) |-> LineOf(ReadMessages[i])]

\* C16, amended: the transcript is the concatenation, in append order, of
\* each message's prefix, text and line break; it has exactly one line per
\* message when no text holds a line break.
C16_RenderedInAppendOrder ==
  TranscriptRead =>
    /\ last_op.value =
         Flatten([i \in 1..Len(ReadMessages) |-> LineOf(ReadMessages[i]) \o <<"\n">>])
    /\ (\A i \in 1..Len(ReadMessages) :
          \A k \in 1..Len(ReadMessages[i].content) : ReadMessages[i].content[k] /= "\n")
       => SplitLines(last_op.value) =
            [i \in 1..Len(ReadMessages) |-> LineOf(ReadMessages[i])]

\* A user message then an assistant message, read back as two lines.
C16_Witness ==
  /\ TranscriptRead
  /\ ReadMessages = <<HumanMessage(<<"h","i">>), AIMessage(<<"h","i">>)>>
  /\ Len(SplitLines(last_op.value)) = 2

\* C17: a session has an entry in the table only if a message was appended
\* to it since its last clear; reads create none.
C17_EntryOnlyAfterAppend ==
  \A s \in DOMAIN memories : appended[s] /= <<>>

\* C18: the messages appended to a session since its last clear are in its
\* transcript, at the same positions, whatever else happened.
C18_TranscriptKeepsAppended ==
  \A s \in Sessions :
    /\ Len(appended[s]) <= Len(MessagesOf(memories, s))
    /\ \A i \in 1..Len(appended[s]) : MessagesOf(memories, s)[i] = appended[s][i]

(***************************************************************************)
(* Properties of the query pipeline (SpecPipeline).                        *)
(***************************************************************************)
Routed == supplied.t = "absent"

\* The selection model failed: its call raised, or its output is not an
\* object holding a list of strings and a string reasoning.
SelectionModelFailed ==
  /\ selection_llm.called
  /\ \/ selection_llm.raises
     \/ ParsedOutput.exc /= "None"
     \/ ParsedOutput.value.t /= "object"
     \/ ParsedOutput.value.selected_tools.t /= "list"
     \/ \E i \in 1..Len(ParsedOutput.value.selected_tools.items) :
          ParsedOutput.value.selected_tools.items[i].t /= "str"
     \/ ParsedOutput.value.reasoning.t /= "str"

RaisingTools == {k \in 1..Len(execute_log) : execute_log[k].raises}

ResponseModelFailed == \E k \in 1..Len(llm_calls) : llm_calls[k].raised

ResponseModelSucceeded == \E k \in 1..Len(llm_calls) : ~llm_calls[k].raised

FailedComponents ==
  (IF SelectionModelFailed THEN 1 ELSE 0) + Cardinality(RaisingTools)
    + (IF ResponseModelFailed THEN 1 ELSE 0)

\* C11: with at most one failed component (the selection model, one tool's
\* execute, the response model) AgenticRAG.process_query does not raise and
\* returns a response that carries an answer.
C11_SingleFailureNeverRaises ==
  (Routed /\ FailedComponents <= 1) =>
    /\ pc /= "raised"
    /\ pc = "Done" => (api_response.status = "returned" /\ api_response.response.t = "str")

StageIndex(at) ==
  CASE at = "route_query" -> 1
    [] at \in {"execute", "executed"} -> 2
    [] at = "retrieve_context" -> 3
    [] at \in {"generate_response", "fallback_invoke", "END", "agent_returned"} -> 4
    [] at = "Done" -> 5
    [] OTHER -> 0

\* C12: a query goes through Selecting, Executing, Normalizing, Composing in
\* that order, one stage after the other, and eventually is Done with an
\* answer; with an empty selection the result map and the evidence are empty
\* and the response model is still called.
C12_StagesInOrder ==
  /\ [][Routed => StageIndex(pc') \in {StageIndex(pc), StageIndex(pc) + 1}]_vars
  /\ []((Routed /\ pc = "Done" /\ tool_names = <<>>) =>
          (tool_responses = <<>> /\ context = <<>> /\ llm_calls /= <<>>))
  /\ <>(pc = "Done" /\ api_response.status = "returned"
                    /\ api_response.response.t = "str")

\* C13, as stated: without supplied tool results (absent, or nil) the
\* selection and the execution run before the normalization; with supplied
\* results neither runs and the supplied map is normalized.
C13_TwoEntryModes ==
  pc \in {"Done", "raised"} =>
    IF supplied.t \in {"absent", "None"}
    THEN /\ tool_selection_result /= NoDecision
         /\ tool_results = tool_responses
         /\ context = RetrieveContextOf(<<>>, tool_responses)
    ELSE /\ tool_selection_result = NoDecision
         /\ execute_log = <<>>
         /\ tool_results = supplied.v
         /\ context = RetrieveContextOf(<<>>, supplied.v)

\* C13, amended: AgenticRAG.process_query, whose request has no tool
\* results, runs the selection and the execution and the agent normalizes
\* the executor's map; LangGraphAgent.process_query called with a map runs
\* neither and normalizes that map; called with nil it runs no stage and
\* returns the processing apology with an error.
C13_TwoEntryPoints ==
  pc \in {"Done", "raised"} =>
    CASE supplied.t = "absent" ->
           /\ tool_selection_result /= NoDecision
           /\ Range(DictKeys(tool_responses)) = Range(tool_names) \cap tools
           /\ tool_results = tool_responses
           /\ context = RetrieveContextOf(<<>>, tool_responses)
      [] supplied.t = "dict" ->
           /\ tool_selection_result = NoDecision
           /\ execute_log = <<>>
           /\ tool_results = supplied.v
           /\ context = RetrieveContextOf(<<>>, supplied.v)
      [] supplied.t = "None" ->
           /\ tool_selection_result = NoDecision
           /\ execute_log = <<>>
           /\ context = <<>>
           /\ llm_calls = <<>>
           /\ api_response.response = PyStr(PROCESSING_APOLOGY)
           /\ api_response.error.t = "str"

\* The caller's map holds an SQL result; it was normalized, no tool ran.
C13_Witness ==
  /\ pc = "Done"
  /\ supplied.t = "dict"
  /\ supplied.v /= <<>>
  /\ tool_results = supplied.v
  /\ context /= <<>>
  /\ execute_log = <<>>

ErrorEvidence ==
  {i \in 1..Len(context) : context[i].source = <<"SQL Database Error">>}

\* C14: when a selected tool raised and the response model call succeeded,
\* the pipeline returns a response whose top-level error is null; the
\* failure shows at most as one error-labelled evidence item, of a failed
\* SQL result.
C14_ToolFailureAbsorbed ==
  (pc \in {"Done", "raised"} /\ Routed /\ RaisingTools /= {}
     /\ ResponseModelSucceeded) =>
    /\ api_response.status = "returned"
    /\ api_response.error = PyNone
    /\ Cardinality(ErrorEvidence) <= 1
    /\ ErrorEvidence /= {} =>
         /\ DictHas(tool_responses, "SQLQueryTool")
         /\ ~DictGet(tool_responses, "SQLQueryTool").success

(***************************************************************************)
(* Properties of concurrent requests (SpecConcurrent).                     *)
(***************************************************************************)
DoneWorkers == {w \in Workers : workers[w].pc = "done"}

\* The orders in which the finished requests can have been saved.
SaveOrders ==
  {order \in [1..Cardinality(DoneWorkers) -> DoneWorkers] :
     \A i, j \in 1..Cardinality(DoneWorkers) : order[i] = order[j] => i = j}

\* C19: the transcript of the session is, for the finished requests in some
\* order, each request's user message immediately followed by its own
\* assistant message; nothing is lost, nothing is there twice.
C19_AppendsSerialized ==
  \E order \in SaveOrders :
    /\ Len(MessagesOf(memories, "s1")) = 2 * Cardinality(DoneWorkers)
    /\ \A i \in 1..Cardinality(DoneWorkers) :
         /\ MessagesOf(memories, "s1")[2 * i - 1] = HumanMessage(workers[order[i]].query)
         /\ MessagesOf(memories, "s1")[2 * i] = AIMessage(workers[order[i]].response.v)

(***************************************************************************)
(* Properties of the evidence order (SpecAgent).                           *)
(***************************************************************************)
\* The items each entry of the result map gives, entry after entry.
EvidenceInMapOrder ==
  Flatten([i \in 1..Len(tool_results) |->
             IF tool_results[i].key \in TOOL_CLASSES
             THEN MappingOf(tool_results[i].key).items ELSE <<>>])

\* C24, as stated: the context holds the items of the tools in the order of
\* the result map, the items of one tool in payload order, none dropped,
\* none twice.
C24_EvidenceInMapOrder ==
  Normalized => context = EvidenceInMapOrder

\* The place of a tool's mapping in retrieve_context.
MappingRank(item) ==
  CASE item.source[1] \in SourceLabels["DocumentSearchTool"] -> 1
    [] item.source[1] \in SourceLabels["MongoDBQueryTool"] -> 2
    [] item.source[1] \in SourceLabels["SQLQueryTool"] -> 3
    [] item.source[1] \in SourceLabels["WebSearchTool"] -> 4

MappingRaises == \E tool_name \in TOOL_CLASSES : MappingOf(tool_name).exc /= "None"

\* C24, amended: the context is ordered by tool kind, document search, then
\* MongoDB, then SQL, then web search, whatever the order of the result map;
\* the items of one tool are all the items of its payload, in payload order,
\* none dropped, none twice; when a mapping raises the context is empty.
C24_EvidenceInMappingOrder ==
  Normalized =>
    /\ \A i, j \in 1..Len(context) :
         i < j => MappingRank(context[i]) <= MappingRank(context[j])
    /\ \A tool_name \in TOOL_CLASSES :
         EvidenceOf(tool_name) =
           IF MappingRaises THEN <<>> ELSE MappingOf(tool_name).items
    /\ \A tool_name \in {"DocumentSearchTool", "MongoDBQueryTool", "WebSearchTool"} :
         (DictHas(tool_results, tool_name) /\ ~MappingRaises
            /\ DictGet(tool_results, tool_name).success) =>
           LET payload == DictGet(tool_results, tool_name).payload.items
           IN /\ Len(EvidenceOf(tool_name)) = Len(payload)
              /\ \A i \in 1..Len(payload) :
                   EvidenceOf(tool_name)[i].content.ns \in {<<>>, <<payload[i].n>>}

\* The map lists the web search before the SQL tool, both with two entries;
\* the context holds the SQL items first.
C24_Witness ==
  /\ Normalized
  /\ DictKeys(tool_results) = <<"WebSearchTool", "SQLQueryTool">>
  /\ Len(EvidenceOf("WebSearchTool")) = 2
  /\ EvidenceOf("WebSearchTool")[1].content.ns = <<1>>
  /\ EvidenceOf("WebSearchTool")[2].content.ns = <<2>>
  /\ Len(EvidenceOf("SQLQueryTool")) = 4
  /\ context = EvidenceOf("SQLQueryTool") \o EvidenceOf("WebSearchTool")

(***************************************************************************)
(* Properties of generate_response (SpecAgent).                            *)
(***************************************************************************)
\* C25: the response model is called once with the primary messages, and a
\* second time, with the fallback prompt, only after the primary call
\* raised; when the fallback call succeeds the answer is its output and the
\* error is null; the apology with an error is returned only after both
\* calls raised.
C25_FallbackOnlyAfterPrimaryRaised ==
  /\ Len(llm_calls) <= 2
  /\ pc = "END" =>
       /\ Len(llm_calls) >= 1
       /\ llm_calls[1].kind = "simple_messages"
       /\ ~llm_calls[1].raised =>
            /\ Len(llm_calls) = 1
            /\ response = PyStr(llm_calls[1].output)
            /\ error = PyNone
       /\ Len(llm_calls) = 2 =>
            /\ llm_calls[1].raised
            /\ llm_calls[2].kind = "fallback_prompt"
            /\ ~llm_calls[2].raised =>
                 (response = PyStr(llm_calls[2].output) /\ error = PyNone)
       /\ error /= PyNone =>
            /\ response = PyStr(APOLOGY)
            /\ Len(llm_calls) = 2
            /\ llm_calls[1].raised /\ llm_calls[2].raised

\* The primary call raised, the fallback call answered.
C25_Witness ==
  /\ pc = "END"
  /\ Len(llm_calls) = 2
  /\ llm_calls[1].raised
  /\ ~llm_calls[2].raised
  /\ llm_calls[2].output = <<"4","2">>
  /\ response = PyStr(<<"4","2">>)
  /\ error = PyNone

\* C26: the primary prompt holds every item of the context, in the order of
\* the context, the keys of tool_results and the query; the system message
\* gets one history section when the transcript is not empty and none when
\* it is empty or absent.
C26_PrimaryPromptContents ==
  llm_calls /= <<>> =>
    /\ llm_calls[1].kind = "simple_messages"
    /\ llm_calls[1].context = context
    /\ llm_calls[1].tools_used = DictKeys(tool_results)
    /\ llm_calls[1].question = query
    /\ llm_calls[1].history =
         IF chat_history = PyNone \/ chat_history = PyStr(<<>>)
         THEN <<>> ELSE <<chat_history.v>>

\* Two tools gave evidence and the session has a transcript.
C26_Witness ==
  /\ llm_calls /= <<>>
  /\ Len(llm_calls[1].context) >= 2
  /\ Len(llm_calls[1].tools_used) = 2
  /\ llm_calls[1].history /= <<>>
  /\ llm_calls[1].question = <<"h","i">>

(***************************************************************************)
(* Properties of the keyword pre-scan (SpecSelect).                        *)
(***************************************************************************)
\* A keyword of the tool type is a substring of the lower-cased query.
KeywordOccurs(tool_type) ==
  \E k \in 1..Len(TOOL_KEYWORDS[tool_type]) :
    Contains(Lower(query), TOOL_KEYWORDS[tool_type][k])

\* C27: once the pre-scan ran, a tool type is keyword-selected exactly when it is enabled and one
\* of its keywords is a substring of the lower-cased query; for the budget
\* query with the SQL tool and the web search enabled the pre-scan selects
\* the SQL tool, and that is the selection when the model call fails.
C27_KeywordEligibility ==
  (pc = "selected" /\ tools /= {}) =>
    /\ \A tool_type \in Range(ToolTypes) :
         tool_type \in Range(keyword_selected_tools) <=>
           /\ tool_type \in Range(EnabledTypes(bot_config))
           /\ KeywordOccurs(tool_type)
    /\ (/\ query = BudgetQuery
        /\ Range(EnabledTypes(bot_config)) = {"SQLQueryTool", "WebSearchTool"}) =>
         /\ keyword_selected_tools = <<"SQLQueryTool">>
         /\ selection_llm.raises => Selected = <<"SQLQueryTool">>

(***************************************************************************)
(* Properties of the saved conversation (SpecPipeline).                    *)
(***************************************************************************)
\* C28: the transcript of a session alternates user and assistant messages,
\* starting with a user message, and has even length; a completed query with
\* a session id, whose response model was called, has added its user message
\* followed by one assistant message holding the answer, whatever the answer.
C28_TranscriptAlternates ==
  /\ \A s \in Sessions :
       /\ Len(MessagesOf(memories, s)) % 2 = 0
       /\ \A i \in 1..Len(MessagesOf(memories, s)) :
            MessagesOf(memories, s)[i].type = IF i % 2 = 1 THEN "human" ELSE "ai"
  /\ (/\ pc \in {"agent_returned", "Done", "raised"}
      /\ session_id = PyStr("s1")
      /\ llm_calls /= <<>>) =>
       \E before \in {<<>>, PriorMessages} :
         MessagesOf(memories, "s1") =
           before \o <<HumanMessage(query), AIMessage(response.v)>>

(***************************************************************************)
(* Properties of the executed selection (SpecExecute).                     *)
(***************************************************************************)
\* C29: the selection handed to the executor names no tool id twice and no
\* registered tool is invoked more than once in a query, whatever the model
\* returned and on every fallback path.
C29_NoToolTwice ==
  /\ \A i, j \in 1..Len(tool_names) : tool_names[i] = tool_names[j] => i = j
  /\ \A k, l \in 1..Len(execute_log) :
       execute_log[k].tool = execute_log[l].tool => k = l

(***************************************************************************)
(* Properties of the HTTP endpoints (SpecHttp).                            *)
(***************************************************************************)
\* C30: a request gets the status its handler raised: 404 for an unknown
\* bot, 400 for clear-memory without session_id, 500 only for an error that
\* is no HTTPException; a request answered with an error status leaves the
\* session memory as it was.
C30_HandlerStatusDelivered ==
  api_response.status = "http" =>
    /\ api_response.raised.exc = "HTTPException" =>
         api_response.status_code = api_response.raised.status_code
    /\ api_response.bot_name \notin LoadedBots => api_response.status_code = 404
    /\ (/\ api_response.endpoint = "clear-memory"
        /\ api_response.bot_name \in LoadedBots
        /\ api_response.session = PyNone) => api_response.status_code = 400
    /\ api_response.status_code = 500 =>
         api_response.raised.exc \notin {"None", "HTTPException"}
    /\ api_response.status_code /= 200 => memories = api_response.before

====
